---- MODULE Spec2Model ----
(***************************************************************************)
(* A model of the kicad-pcb-api codec: the S-expression values the reader  *)
(* produces (sexpdata Symbols, strings, numbers, lists), the element       *)
(* parsers of parsers/elements, the ParserRegistry that dispatches to      *)
(* them, and the parse -> render cycle of a whole document.                *)
(*                                                                         *)
(* Python values are records tagged by k: "sym" (sexpdata.Symbol), "str",  *)
(* "num", "list", "none" (None); "raise" stands for an exception that      *)
(* leaves a function.  Numbers are fixed-point with two decimals: Num(n)   *)
(* is the number n / 100, so that 0.25 is Num(25) and 1 is Num(100).       *)
(***************************************************************************)
EXTENDS Integers, Sequences, FiniteSets, TLC

VARIABLES
    parsers,          \* ParserRegistry._parsers: element type -> parser class
    fallback_parser,  \* ParserRegistry._fallback_parser: parser class or None
    call,             \* the last registry / parser call and what it returned
    text,             \* the text handed to the last parse_string
    pcb_data,         \* the document the last parse_string returned (or None)
    error,            \* the exception the last parse_string raised ("" if none)
    output,           \* the text of the last dumps
    history,          \* the outputs of the successive load -> save cycles
    indent_level,     \* PCBFormatter.indent_level
    boards,           \* the PCBBoard instance of each caller
    config,           \* core.config.config.track.default_width, the module-level instance
    disk,             \* the file system: path -> what is there
    ghost,            \* per caller: what the caller would observe running alone
    ncalls,           \* the number of board calls made
    collection,       \* an IndexedCollection instance
    via,              \* the Via of a ViaWrapper (None before there is one)
    pcb_board,        \* a PCBBoard with its collections and managers
    track_collection, \* a TrackCollection instance
    footprint_collection \* a FootprintCollection instance

vars == <<parsers, fallback_parser, call, text, pcb_data, error, output, history,
          indent_level, boards, config, disk, ghost, ncalls, collection, via,
          pcb_board, track_collection, footprint_collection>>

-----------------------------------------------------------------------------
(* Python values *)

Sym(s) == [s |-> s, k |-> "sym"]
Str(s) == [s |-> s, k |-> "str"]
Num(n) == [k |-> "num", n |-> n]
Lst(items) == [k |-> "list", items |-> items]
None == [k |-> "none"]
Raise == [k |-> "raise"]

\* bool(v) as Python computes it for the values above
Truthy(v) ==
    CASE v.k = "list" -> v.items # <<>>
      [] v.k = "str" -> v.s # ""
      [] v.k = "num" -> v.n # 0
      [] v.k = "none" -> FALSE
      [] OTHER -> TRUE

\* l[i] with Python's zero-based index; HasIdx is "no IndexError"
HasIdx(l, i) == i < Len(l.items)
At(l, i) == l.items[i + 1]

\* The numerals that occur as text: float("1") succeeds, float("R1") does not.
MaxNumeral == 3
Scale == 100
IsNumeral(s) == \E n \in 0..MaxNumeral : ToString(n) = s
NumeralValue(s) == Scale * (CHOOSE n \in 0..MaxNumeral : ToString(n) = s)

\* float(v): defined for numbers and numeric strings, TypeError / ValueError otherwise
Floatable(v) == v.k = "num" \/ (v.k = "str" /\ IsNumeral(v.s))
ToFloat(v) == Num(IF v.k = "num" THEN v.n ELSE NumeralValue(v.s))

\* float(l[i]) raises (IndexError, TypeError or ValueError)
FloatFails(l, i) == ~HasIdx(l, i) \/ ~Floatable(At(l, i))

\* str(v) of an atom
PyStr(v) == IF v.k \in {"sym", "str"} THEN Str(v.s) ELSE v

-----------------------------------------------------------------------------
(* BaseElementParser helpers (parsers/base.py; parsers/utils.py has the same) *)

is_sexp_list(obj) == obj.k = "list"

get_symbol_name(obj) == IF obj.k = "sym" THEN Str(obj.s) ELSE None

to_string(obj) == IF obj.k = "sym" THEN Str(obj.s) ELSE obj

\* The items the scan of `for item in sexp` looks at closely: lists whose
\* item[0] is the wanted Symbol, and empty lists, where item[0] raises.
ScanHits(sexp, name) ==
    {i \in 1..Len(sexp) :
        /\ is_sexp_list(sexp[i])
        /\ \/ sexp[i].items = <<>>
           \/ get_symbol_name(sexp[i].items[1]) = Str(name)}

Least(S) == CHOOSE i \in S : \A j \in S : i <= j

\* what the scan returns, given the places it looks at closely
first_hit(sexp, hits) ==
    IF hits = {} THEN None
    ELSE IF sexp[Least(hits)].items = <<>> THEN Raise
    ELSE sexp[Least(hits)]

find_element(sexp, name) == first_hit(sexp, ScanHits(sexp, name))

\* The scan of find_all_elements visits every item: any empty list raises.
RECURSIVE Matches(_, _)
Matches(sexp, name) ==
    IF sexp = <<>> THEN <<>>
    ELSE (IF is_sexp_list(Head(sexp)) /\ get_symbol_name(Head(sexp).items[1]) = Str(name)
          THEN <<Head(sexp)>> ELSE <<>>) \o Matches(Tail(sexp), name)

HasEmptyList(sexp) == \E i \in 1..Len(sexp) : is_sexp_list(sexp[i]) /\ sexp[i].items = <<>>

find_all_elements(sexp, name) ==
    IF HasEmptyList(sexp) THEN Raise ELSE Lst(Matches(sexp, name))

\* element[1] if element and len(element) > 1 else default
value_or_default(element, default) ==
    IF element = Raise THEN Raise
    ELSE IF Truthy(element) /\ Len(element.items) > 1 THEN At(element, 1)
    ELSE default

get_value(sexp, name, default) == value_or_default(find_element(sexp, name), default)

\* An optional sub-element whose item i is read: "x[i] if x else default"
Raised(x) == x = Raise
Missing(x) == x = None
IdxFails(x, i) == ~Missing(x) /\ ~HasIdx(x, i)
OptFloatFails(x, i) == ~Missing(x) /\ FloatFails(x, i)

\* str(uuid.uuid4()): a fresh, non-empty string that no source text holds
Uuid4 == Str("uuid4()")

-----------------------------------------------------------------------------
(* Domain records (core/types.py is not part of the sources at hand) *)

\* validate_net: the repository's rule for a net number and its name
validate_net_raises(net, net_name) ==
    \/ net.k # "num"
    \/ net.n < 0
    \/ net.n = 0 /\ Truthy(net_name)

\* a Net record that takes whatever it is given
Net_unchecked(number, name) == [k |-> "Net", name |-> name, number |-> number]

\* Net(number, name): construction of net 0 with a name is rejected
Net(number, name) ==
    IF validate_net_raises(number, name) THEN Raise
    ELSE [k |-> "Net", name |-> name, number |-> number]

\* The defaults of the records that the parsers leave untouched
DefaultTrackWidth == 25
DefaultViaSize == 80
DefaultViaDrill == 40
ZoneDefaultUuid == Str("")

Point(x, y) == <<ToFloat(x).n, ToFloat(y).n>>

-----------------------------------------------------------------------------
(* parsers/elements: parse_element of each parser class *)

NetParser_parse_element(element) ==
    IF Len(element.items) < 3 THEN None
    ELSE Net(At(element, 1), At(element, 2))

\* the Track built from the sub-elements found
track_from(start_elem, end_elem, width_elem, layer_elem, net_elem, uuid_elem) ==
    IF Raised(start_elem) \/ Raised(end_elem) THEN Raise
    ELSE IF ~Truthy(start_elem) \/ ~Truthy(end_elem) THEN None
    ELSE IF \/ FloatFails(start_elem, 1) \/ FloatFails(start_elem, 2)
            \/ FloatFails(end_elem, 1) \/ FloatFails(end_elem, 2)
            \/ Raised(width_elem) \/ OptFloatFails(width_elem, 1)
            \/ Raised(layer_elem) \/ IdxFails(layer_elem, 1)
            \/ Raised(net_elem) \/ IdxFails(net_elem, 1)
            \/ Raised(uuid_elem) \/ IdxFails(uuid_elem, 1)
    THEN Raise
    ELSE [k |-> "Track",
          net |-> IF Missing(net_elem) THEN None ELSE At(net_elem, 1),
          start |-> Point(At(start_elem, 1), At(start_elem, 2)),
          end |-> Point(At(end_elem, 1), At(end_elem, 2)),
          width |-> IF Missing(width_elem) THEN DefaultTrackWidth
                    ELSE ToFloat(At(width_elem, 1)).n,
          layer |-> IF Missing(layer_elem) THEN Str("F.Cu")
                    ELSE to_string(At(layer_elem, 1)),
          uuid |-> IF Missing(uuid_elem) THEN Uuid4 ELSE At(uuid_elem, 1)]

TrackParser_parse_element(element) ==
    track_from(find_element(element.items, "start"), find_element(element.items, "end"),
               find_element(element.items, "width"), find_element(element.items, "layer"),
               find_element(element.items, "net"), find_element(element.items, "uuid"))

\* [str(l) for l in layers_elem[1:]]
StrAll(items) == [i \in 1..Len(items) |-> PyStr(items[i])]

\* the Via built from the sub-elements found
via_from(at_elem, size_elem, drill_elem, layers_elem, net_elem, uuid_elem) ==
    IF Raised(at_elem) THEN Raise
    ELSE IF ~Truthy(at_elem) \/ Len(at_elem.items) < 3 THEN None
    ELSE IF \/ FloatFails(at_elem, 1) \/ FloatFails(at_elem, 2)
            \/ Raised(size_elem) \/ OptFloatFails(size_elem, 1)
            \/ Raised(drill_elem) \/ OptFloatFails(drill_elem, 1)
            \/ Raised(layers_elem)
            \/ Raised(net_elem) \/ IdxFails(net_elem, 1)
            \/ Raised(uuid_elem) \/ IdxFails(uuid_elem, 1)
    THEN Raise
    ELSE [k |-> "Via",
          net |-> IF Missing(net_elem) THEN None ELSE At(net_elem, 1),
          uuid |-> IF Missing(uuid_elem) THEN Uuid4 ELSE At(uuid_elem, 1),
          position |-> Point(At(at_elem, 1), At(at_elem, 2)),
          size |-> IF Missing(size_elem) THEN DefaultViaSize
                   ELSE ToFloat(At(size_elem, 1)).n,
          drill |-> IF Missing(drill_elem) THEN DefaultViaDrill
                    ELSE ToFloat(At(drill_elem, 1)).n,
          layers |-> IF Missing(layers_elem) THEN <<Str("F.Cu"), Str("B.Cu")>>
                     ELSE StrAll(Tail(layers_elem.items))]

ViaParser_parse_element(element) ==
    via_from(find_element(element.items, "at"), find_element(element.items, "size"),
             find_element(element.items, "drill"), find_element(element.items, "layers"),
             find_element(element.items, "net"), find_element(element.items, "uuid"))

\* " ".join(str(l) for l in items)
RECURSIVE JoinStr(_)
JoinStr(items) ==
    IF items = <<>> THEN ""
    ELSE IF Len(items) = 1 THEN PyStr(items[1]).s
    ELSE PyStr(items[1]).s \o " " \o JoinStr(Tail(items))

\* Zone(layer="F.Cu"): the record ZoneParser starts from
NewZone ==
    [k |-> "Zone", net |-> None, net_name |-> None, layer |-> Str("F.Cu"),
     uuid |-> ZoneDefaultUuid, hatch_thickness |-> None, hatch_gap |-> None,
     thermal_relief_gap |-> None, thermal_relief_bridge |-> None,
     min_thickness |-> None, filled |-> None, polygon |-> <<>>]

IsXY(pt) == is_sexp_list(pt) /\ pt.items # <<>> /\ get_symbol_name(At(pt, 0)) = Str("xy")

points_of(xys) == [i \in 1..Len(xys) |-> Point(At(xys[i], 1), At(xys[i], 2))]

\* zone.polygon after the loop over pts_elem[1:], or Raise
ZonePoints(polygon, pts) ==
    IF \E i \in 1..Len(pts) :
          is_sexp_list(pts[i]) /\
             (pts[i].items = <<>> \/
              (IsXY(pts[i]) /\ (FloatFails(pts[i], 1) \/ FloatFails(pts[i], 2))))
    THEN Raise
    ELSE Lst(polygon \o points_of(SelectSeq(pts, IsXY)))

\* connect_pads: the clearance found in it
zone_connect_pads(zone, connect_elem) ==
    IF Raised(connect_elem) \/ OptFloatFails(connect_elem, 1) THEN Raise
    ELSE IF Missing(connect_elem) THEN zone
    ELSE [zone EXCEPT !.thermal_relief_gap = ToFloat(At(connect_elem, 1))]

\* fill: thermal_gap and thermal_bridge_width found in it
zone_fill(zone, thermal_gap, thermal_bridge) ==
    IF \/ Raised(thermal_gap) \/ OptFloatFails(thermal_gap, 1)
       \/ Raised(thermal_bridge) \/ OptFloatFails(thermal_bridge, 1)
    THEN Raise
    ELSE [zone EXCEPT
            !.thermal_relief_gap =
                IF Missing(thermal_gap) THEN @ ELSE ToFloat(At(thermal_gap, 1)),
            !.thermal_relief_bridge =
                IF Missing(thermal_bridge) THEN @ ELSE ToFloat(At(thermal_bridge, 1))]

with_polygon(zone, pg) == IF Raised(pg) THEN Raise ELSE [zone EXCEPT !.polygon = pg.items]

\* polygon: the points of the pts found in it
zone_polygon(zone, pts_elem) ==
    IF Raised(pts_elem) THEN Raise
    ELSE IF Missing(pts_elem) THEN zone
    ELSE with_polygon(zone, ZonePoints(zone.polygon, Tail(pts_elem.items)))

\* One turn of the loop "for item in element[1:]" of ZoneParser.parse_element
zone_item(zone, item, item_type, n) ==
    CASE item_type = Str("net") ->
            [zone EXCEPT !.net = IF n >= 2 THEN At(item, 1) ELSE @,
                         !.net_name = IF n >= 3 THEN At(item, 2) ELSE @]
      [] item_type = Str("net_name") ->
            IF n < 2 THEN Raise ELSE [zone EXCEPT !.net_name = At(item, 1)]
      [] item_type = Str("layers") ->
            [zone EXCEPT !.layer = Str(JoinStr(Tail(item.items)))]
      [] item_type = Str("uuid") ->
            IF n < 2 THEN Raise ELSE [zone EXCEPT !.uuid = At(item, 1)]
      [] item_type = Str("hatch") ->
            IF (n >= 3 /\ FloatFails(item, 2)) \/ (n >= 4 /\ FloatFails(item, 3))
            THEN Raise
            ELSE [zone EXCEPT
                    !.hatch_thickness = IF n >= 3 THEN ToFloat(At(item, 2)) ELSE @,
                    !.hatch_gap = IF n >= 4 THEN ToFloat(At(item, 3)) ELSE @]
      [] item_type = Str("connect_pads") ->
            zone_connect_pads(zone, find_element(item.items, "clearance"))
      [] item_type = Str("min_thickness") ->
            IF FloatFails(item, 1) THEN Raise
            ELSE [zone EXCEPT !.min_thickness = ToFloat(At(item, 1))]
      [] item_type = Str("filled_areas_thickness") ->
            IF n < 2 THEN Raise
            ELSE [zone EXCEPT !.filled = IF At(item, 1) = Str("no") THEN Str("False")
                                         ELSE Str("True")]
      [] item_type = Str("fill") ->
            zone_fill(zone, find_element(item.items, "thermal_gap"),
                      find_element(item.items, "thermal_bridge_width"))
      [] item_type = Str("polygon") ->
            zone_polygon(zone, find_element(item.items, "pts"))
      [] OTHER -> zone

ZoneItem(zone, item) ==
    IF ~is_sexp_list(item) THEN zone
    ELSE IF item.items = <<>> THEN Raise
    ELSE zone_item(zone, item, get_symbol_name(At(item, 0)), Len(item.items))

RECURSIVE ZoneLoop(_, _)
ZoneLoop(zone, items) ==
    IF Raised(zone) \/ items = <<>> THEN zone
    ELSE ZoneLoop(ZoneItem(zone, Head(items)), Tail(items))

ZoneParser_parse_element(element) == ZoneLoop(NewZone, Tail(element.items))

(* FootprintParser.  The model follows the sub-elements lib id, layer,    *)
(* uuid, at, property and pad; the inputs carry no descr, tags, attr,     *)
(* path, fp_* graphics, model, effects, drill or roundrect_rratio items,  *)
(* for which the code does nothing when they are absent.                  *)

\* lib_id.split(":", 1) for the library ids of the inputs
LibIdParts(s) ==
    CASE s = "Resistor_SMD:R_0603" -> <<"Resistor_SMD", "R_0603">>
      [] s = "LED_SMD:LED_0805" -> <<"LED_SMD", "LED_0805">>
      [] OTHER -> <<"", s>>

\* Point(float(at[1]), float(at[2])) if at_elem and len(at_elem) >= 3 else dflt
OptPoint(at_elem, dflt) ==
    IF Raised(at_elem) THEN Raise
    ELSE IF Truthy(at_elem) /\ Len(at_elem.items) >= 3
         THEN IF FloatFails(at_elem, 1) \/ FloatFails(at_elem, 2) THEN Raise
              ELSE Lst(Point(At(at_elem, 1), At(at_elem, 2)))
    ELSE Lst(dflt)

\* an exception that is caught: the value, or None where it was raised
no_raise(result) == IF Raised(result) THEN None ELSE result

\* the results of a loop that keeps what parsed, or Raise when one turn raises
IsKept(r) == r # None
kept_results(parsed) ==
    IF \E i \in 1..Len(parsed) : Raised(parsed[i]) THEN Raise
    ELSE Lst(SelectSeq(parsed, IsKept))

\* the Property built from the sub-elements found
property_from(element, position, layer_elem, uuid_elem) ==
    IF \/ Raised(position)
       \/ Raised(layer_elem) \/ IdxFails(layer_elem, 1)
       \/ Raised(uuid_elem) \/ IdxFails(uuid_elem, 1)
    THEN Raise
    ELSE [k |-> "Property",
          name |-> At(element, 1),
          layer |-> IF Missing(layer_elem) THEN Str("F.SilkS")
                    ELSE to_string(At(layer_elem, 1)),
          uuid |-> IF Missing(uuid_elem) THEN Uuid4 ELSE At(uuid_elem, 1),
          position |-> position.items,
          value |-> At(element, 2)]

parse_property(element) ==
    IF Len(element.items) < 3 THEN None
    ELSE property_from(element, OptPoint(find_element(element.items, "at"), <<0, 0>>),
                       find_element(element.items, "layer"),
                       find_element(element.items, "uuid"))

\* if net_elem and len(net_elem) >= 3
HasNet(net_elem) == Truthy(net_elem) /\ Len(net_elem.items) >= 3

\* the Pad built from the sub-elements found
pad_from(element, position, size, layers_elem, net_elem, uuid_elem) ==
    IF \/ Raised(position) \/ Raised(size) \/ Raised(layers_elem)
       \/ Raised(net_elem)
       \/ Raised(uuid_elem) \/ IdxFails(uuid_elem, 1)
    THEN Raise
    ELSE [k |-> "Pad",
          net |-> IF HasNet(net_elem) THEN At(net_elem, 1) ELSE None,
          net_name |-> IF HasNet(net_elem) THEN At(net_elem, 2) ELSE None,
          number |-> PyStr(At(element, 1)),
          uuid |-> IF Missing(uuid_elem) THEN Uuid4 ELSE At(uuid_elem, 1),
          position |-> position.items,
          size |-> size.items,
          layers |-> IF Missing(layers_elem) THEN <<>>
                     ELSE StrAll(Tail(layers_elem.items)),
          type |-> to_string(At(element, 2)),
          shape |-> to_string(At(element, 3))]

parse_pad(element) ==
    IF Len(element.items) < 4 THEN None
    ELSE pad_from(element, OptPoint(find_element(element.items, "at"), <<0, 0>>),
                  OptPoint(find_element(element.items, "size"), <<Scale, Scale>>),
                  find_element(element.items, "layers"),
                  find_element(element.items, "net"),
                  find_element(element.items, "uuid"))

\* the properties / pads of the elements found that parse, or Raise when
\* the search or one of the elements raises
parse_properties(found) ==
    IF Raised(found) THEN Raise
    ELSE kept_results([i \in 1..Len(found.items) |-> parse_property(found.items[i])])

parse_pads(found) ==
    IF Raised(found) THEN Raise
    ELSE kept_results([i \in 1..Len(found.items) |-> parse_pad(found.items[i])])

\* footprint.reference / footprint.value after the loop over the properties:
\* every property named `name` assigns, so the last one stays
RECURSIVE PropertyValue(_, _, _)
PropertyValue(props, name, current) ==
    IF props = <<>> THEN current
    ELSE PropertyValue(Tail(props), name,
                       IF Head(props).name = Str(name) THEN Head(props).value ELSE current)

\* element[1], or the IndexError it raises
lib_id_of(element) == IF HasIdx(element, 1) THEN At(element, 1) ELSE Raise

\* the Footprint built from the sub-elements found
footprint_from(lib_id, layer_elem, uuid_elem, at_elem, props, pads) ==
    IF \/ Raised(lib_id) \/ lib_id.k = "num"
       \/ Raised(layer_elem) \/ IdxFails(layer_elem, 1)
       \/ Raised(uuid_elem) \/ IdxFails(uuid_elem, 1)
       \/ Raised(at_elem)
    THEN Raise
    ELSE IF ~Truthy(at_elem) \/ Len(at_elem.items) < 3 THEN None
    ELSE IF \/ FloatFails(at_elem, 1) \/ FloatFails(at_elem, 2)
            \/ (Len(at_elem.items) > 3 /\ FloatFails(at_elem, 3))
            \/ Raised(props) \/ Raised(pads)
    THEN Raise
    ELSE [k |-> "Footprint",
          name |-> IF lib_id.k = "str" THEN Str(LibIdParts(lib_id.s)[2]) ELSE lib_id,
          layer |-> IF Missing(layer_elem) THEN Str("F.Cu")
                    ELSE to_string(At(layer_elem, 1)),
          uuid |-> IF Missing(uuid_elem) THEN Uuid4 ELSE At(uuid_elem, 1),
          position |-> Point(At(at_elem, 1), At(at_elem, 2)),
          value |-> PropertyValue(props.items, "Value", Str("")),
          pads |-> pads.items,
          library |-> IF lib_id.k = "str" THEN Str(LibIdParts(lib_id.s)[1]) ELSE Str(""),
          rotation |-> IF Len(at_elem.items) > 3 THEN ToFloat(At(at_elem, 3)).n ELSE 0,
          properties |-> props.items,
          reference |-> PropertyValue(props.items, "Reference", Str(""))]

\* the body of the try block of FootprintParser.parse_element
FootprintParser_try(element) ==
    footprint_from(lib_id_of(element),
                   find_element(element.items, "layer"),
                   find_element(element.items, "uuid"),
                   find_element(element.items, "at"),
                   parse_properties(find_all_elements(element.items, "property")),
                   parse_pads(find_all_elements(element.items, "pad")))

\* try: ... except Exception: return None
FootprintParser_parse_element(element) == no_raise(FootprintParser_try(element))

-----------------------------------------------------------------------------
(* BaseElementParser.can_parse / parse.  A parser object is named by its   *)
(* class; element_type is what its __init__ hands to super().__init__.     *)

ParserClasses == {"NetParser", "TrackParser", "ViaParser", "ZoneParser", "FootprintParser"}

element_type(P) ==
    CASE P = "NetParser" -> "net"
      [] P = "TrackParser" -> "segment"
      [] P = "ViaParser" -> "via"
      [] P = "ZoneParser" -> "zone"
      [] P = "FootprintParser" -> "footprint"

parse_element(P, element) ==
    CASE P = "NetParser" -> NetParser_parse_element(element)
      [] P = "TrackParser" -> TrackParser_parse_element(element)
      [] P = "ViaParser" -> ViaParser_parse_element(element)
      [] P = "ZoneParser" -> ZoneParser_parse_element(element)
      [] P = "FootprintParser" -> FootprintParser_parse_element(element)

can_parse(P, element) ==
    /\ Truthy(element)
    /\ is_sexp_list(element)
    /\ get_symbol_name(At(element, 0)) = Str(element_type(P))

\* parse without its try / except: an exception of parse_element leaves it
parse_unguarded(P, element) ==
    IF ~can_parse(P, element) THEN None ELSE parse_element(P, element)

parse(P, element) ==
    IF ~can_parse(P, element) THEN None ELSE no_raise(parse_element(P, element))

-----------------------------------------------------------------------------
(* ParserRegistry *)

Parser(P) == [k |-> "parser", cls |-> P]
NoParsers == [t \in {} |-> "NetParser"]

\* the text of a number: str(1) is "1", str(0.25) is "0.25"
NumText(n) ==
    LET a == IF n < 0 THEN 0 - n ELSE n
        sign == IF n < 0 THEN "-" ELSE ""
        frac == a % Scale
    IN  IF frac = 0 THEN sign \o ToString(a \div Scale)
        ELSE sign \o ToString(a \div Scale) \o "." \o
             (IF frac % 10 = 0 THEN ToString(frac \div 10)
              ELSE IF frac < 10 THEN "0" \o ToString(frac) ELSE ToString(frac))

\* str(element_type) if element_type else None
element_type_str(head) ==
    IF ~Truthy(head) THEN None
    ELSE CASE head.k \in {"sym", "str"} -> Str(head.s)
           [] head.k = "num" -> Str(NumText(head.n))
           [] OTHER -> Str("[...]")

\* the parser registered for the type, else the fallback parser, else None
dispatch(ps, fb, element, ts) ==
    IF ~Truthy(ts) THEN None
    ELSE IF ts.s \in DOMAIN ps THEN parse(ps[ts.s], element)
    ELSE IF Truthy(fb) THEN parse(fb.cls, element)
    ELSE None

registry_parse_element(ps, fb, element) ==
    IF ~Truthy(element) \/ ~is_sexp_list(element) THEN None
    ELSE dispatch(ps, fb, element, element_type_str(At(element, 0)))

registry_parse_elements(ps, fb, elements) ==
    kept_results([i \in 1..Len(elements) |-> registry_parse_element(ps, fb, elements[i])])

-----------------------------------------------------------------------------
(* The elements handed to the parsers: well-formed ones, ones with a       *)
(* missing or ill-typed field, with a repeated sub-element, with an empty  *)
(* list among the children, and values that are no element at all.        *)

L0(tag) == Lst(<<Sym(tag)>>)
L1(tag, a) == Lst(<<Sym(tag), a>>)
L2(tag, a, b) == Lst(<<Sym(tag), a, b>>)

StartOptions ==
    { <<L2("start", Num(100), Num(200))>>, <<L1("start", Num(100))>>,
      <<L2("start", Str("x"), Num(200))>>, <<>> }
NetOptions ==
    { <<>>, <<L1("net", Num(100))>>, <<L1("net", Num(100)), L1("net", Num(200))>>,
      <<L0("net")>> }
UuidOptions ==
    { <<>>, <<L1("uuid", Str("u-1"))>>, <<L1("uuid", Str("u-1")), L1("uuid", Str("u-2"))>>,
      <<L0("uuid")>> }
JunkOptions == { <<>>, <<Lst(<<>>)>> }

TrackPool ==
    { Lst(<<Sym("segment")>> \o s \o <<L2("end", Num(300), Num(200))>> \o n \o u \o j) :
        s \in StartOptions, n \in NetOptions, u \in UuidOptions, j \in JunkOptions }

ViaPool ==
    { Lst(<<Sym("via")>> \o a \o l \o n \o u) :
        a \in { <<L2("at", Num(100), Num(200))>>, <<L1("at", Num(100))>>, <<>> },
        l \in { <<>>, <<L2("layers", Str("F.Cu"), Sym("In1.Cu"))>> },
        n \in NetOptions, u \in UuidOptions }

ZonePool ==
    { Lst(<<Sym("zone")>> \o n \o l \o u \o x) :
        n \in { <<>>, <<L2("net", Num(100), Str("GND"))>>,
                <<L2("net", Num(100), Str("GND")), L2("net", Num(200), Str("VCC"))>>,
                <<L0("net")>> },
        l \in { <<>>, <<L2("layers", Str("F.Cu"), Str("B.Cu"))>>, <<L1("layer", Str("B.Cu"))>> },
        u \in UuidOptions,
        x \in { <<>>, <<L1("min_thickness", Str("x"))>>,
                <<L1("polygon", Lst(<<Sym("pts"), L2("xy", Num(0), Num(0)),
                                       L2("xy", Num(100), Num(0)),
                                       L2("xy", Num(100), Num(100))>>))>> } }

PadOf(nets) ==
    Lst(<<Sym("pad"), Str("1"), Sym("smd"), Sym("rect"),
          L2("at", Num(0), Num(0)), L2("size", Num(100), Num(100))>> \o nets)

FootprintPool ==
    { Lst(<<Sym("footprint")>> \o id \o a \o u \o pr \o pd) :
        id \in { <<Str("Resistor_SMD:R_0603")>>, <<Str("R_0603")>>, <<Num(100)>> },
        a \in { <<L2("at", Num(100), Num(200))>>, <<L1("at", Num(100))>>, <<>> },
        u \in UuidOptions \ { <<L0("uuid")>> },
        pr \in { <<>>,
                 <<L2("property", Str("Reference"), Str("R1"))>>,
                 <<L2("property", Str("Reference"), Str("R1")),
                   L2("property", Str("Reference"), Str("R2"))>>,
                 <<L2("property", Str("Reference"), Str("R1")),
                   L2("property", Str("Value"), Str("10k")),
                   L2("property", Str("Value"), Str("22k"))>>,
                 <<L1("property", Str("Reference"))>> },
        pd \in { <<>>,
                 <<PadOf(<<L2("net", Num(100), Str("GND"))>>)>>,
                 <<PadOf(<<L2("net", Num(100), Str("GND")),
                           L2("net", Num(200), Str("VCC"))>>)>> } }

NetPool ==
    { L2("net", Num(0), Str("")), L2("net", Num(100), Str("GND")),
      L2("net", Num(0), Str("GND")), L2("net", Num(-100), Str("x")),
      L2("net", Str("1"), Str("GND")), L1("net", Num(100)), L0("net"),
      Lst(<<Str("net"), Num(100), Str("GND")>>) }

OtherPool == { None, Str("net"), Lst(<<>>), L1("foo", Str("bar")) }

ElementPool == NetPool \cup TrackPool \cup ViaPool \cup ZonePool \cup FootprintPool \cup OtherPool

\* the elements, element types and parsers the registry is driven with
GoodTrack ==
    Lst(<<Sym("segment"), L2("start", Num(100), Num(200)), L2("end", Num(300), Num(200)),
          L1("uuid", Str("u-1"))>>)
BadTrack ==
    Lst(<<Sym("segment"), L2("start", Str("x"), Num(200)), L2("end", Num(300), Num(200))>>)

RegistryPool ==
    { L2("net", Num(100), Str("GND")), Lst(<<Str("net"), Num(100), Str("GND")>>),
      L1("net", Num(100)), GoodTrack, BadTrack, L1("foo", Str("bar")), Lst(<<>>), Str("net") }
RegistryTypes == {"net", "segment"}
RegistryParsers == {"NetParser", "TrackParser"}

MaxBatch == 2
Batches == UNION { [1..n -> RegistryPool] : n \in 0..MaxBatch }

-----------------------------------------------------------------------------
(* State *)

NoCall == [element |-> None, result |-> None, elements |-> <<>>, op |-> "", parser |-> ""]

codec_vars == <<text, pcb_data, error, output, history>>
registry_vars == <<parsers, fallback_parser>>
formatter_vars == <<indent_level>>
board_vars == <<boards, config, disk, ghost, ncalls>>
collection_vars == <<collection>>
element_vars == <<via, pcb_board, track_collection, footprint_collection>>

\* PCBBoard(): empty pcb_data lists, empty collections, no violations; heap
\* holds the element objects, the lists hold references into it
NewPcb ==
    [pcb_data |-> [footprints |-> <<>>, tracks |-> <<>>, vias |-> <<>>],
     footprints |-> <<>>,
     tracks |-> <<>>, vias |-> <<>>, heap |-> <<>>,
     _violations |-> <<>>]

\* TrackCollection() / FootprintCollection(): no items, indexes never built
NewTrackCollection ==
    [_items |-> <<>>, _dirty_indexes |-> FALSE,
     _net_index |-> <<>>, _layer_index |-> <<>>]
NewFootprintCollection ==
    [_items |-> <<>>, _dirty_indexes |-> FALSE, _reference_index |-> <<>>]

Callers == {"A", "B"}

\* a path, as pathlib splits it
Path(stem, suffix) == [stem |-> stem, suffix |-> suffix]

\* what is at a path: nothing, a directory, or a file holding a text; the
\* footprint sections of the text are kept as their number
NoFile == [kind |-> "missing"]
Directory == [kind |-> "dir"]
File(toks, footprints) == [text |-> toks, footprints |-> footprints, kind |-> "file"]

BoardPath == Path("board", ".kicad_pcb")
CopyPath == Path("copy", ".kicad_pcb")
NotesPath == Path("notes", ".kicad_pcb")
TextPath == Path("test_file", ".txt")
DirPath == Path("test", ".kicad_pcb")
Paths == {BoardPath, CopyPath, NotesPath, TextPath, DirPath}

\* TrackConfig.default_width = 0.25
default_width == Num(25)

\* IndexedCollection(): no items, not modified
EmptyCollection == [_items |-> <<>>, _uuid_index |-> [u \in {} |-> 0], _modified |-> FALSE]

\* PCBBoard(): no file, not modified, empty collections
NewBoard ==
    [footprints |-> 0, tracks |-> EmptyCollection, _modified |-> FALSE, _filepath |-> None]

Alone == [default_width |-> default_width, dirty |-> FALSE, recent |-> None]

\* the objects a specification does not drive stay as constructed
other_vars == <<formatter_vars, board_vars, collection_vars, element_vars>>
OtherInit ==
    /\ indent_level = 0
    /\ boards = [c \in Callers |-> NewBoard]
    /\ config = default_width
    /\ disk = [p \in Paths |-> NoFile]
    /\ ghost = [c \in Callers |-> Alone]
    /\ ncalls = 0
    /\ collection = EmptyCollection
    /\ via = None
    /\ pcb_board = NewPcb
    /\ track_collection = NewTrackCollection
    /\ footprint_collection = NewFootprintCollection

Init ==
    /\ parsers = NoParsers
    /\ fallback_parser = None
    /\ call = NoCall
    /\ text = <<>>
    /\ pcb_data = None
    /\ error = ""
    /\ output = None
    /\ history = <<>>
    /\ OtherInit

(* ParserRegistry operations *)

register(t, P) ==
    /\ parsers' = [x \in DOMAIN parsers \cup {t} |-> IF x = t THEN P ELSE parsers[x]]
    /\ call' = [NoCall EXCEPT !.op = "register", !.parser = P]
    /\ UNCHANGED <<fallback_parser, codec_vars>>
    /\ UNCHANGED other_vars

unregister(t) ==
    /\ parsers' = [x \in DOMAIN parsers \ {t} |-> parsers[x]]
    /\ call' = [NoCall EXCEPT !.op = "unregister",
                              !.result = IF t \in DOMAIN parsers THEN Str("True")
                                         ELSE Str("False")]
    /\ UNCHANGED <<fallback_parser, codec_vars>>
    /\ UNCHANGED other_vars

set_fallback_parser(P) ==
    /\ fallback_parser' = Parser(P)
    /\ call' = [NoCall EXCEPT !.op = "set_fallback_parser", !.parser = P]
    /\ UNCHANGED <<parsers, codec_vars>>
    /\ UNCHANGED other_vars

clear ==
    /\ parsers' = NoParsers
    /\ fallback_parser' = None
    /\ call' = [NoCall EXCEPT !.op = "clear"]
    /\ UNCHANGED codec_vars
    /\ UNCHANGED other_vars

ParseElement(element) ==
    /\ call' = [NoCall EXCEPT !.op = "parse_element", !.element = element,
                  !.result = registry_parse_element(parsers, fallback_parser, element)]
    /\ UNCHANGED <<registry_vars, codec_vars>>
    /\ UNCHANGED other_vars

ParseElements(elements) ==
    /\ call' = [NoCall EXCEPT !.op = "parse_elements", !.elements = elements,
                  !.result = registry_parse_elements(parsers, fallback_parser, elements)]
    /\ UNCHANGED <<registry_vars, codec_vars>>
    /\ UNCHANGED other_vars

Next ==
    \/ \E t \in RegistryTypes, P \in RegistryParsers : register(t, P)
    \/ \E t \in RegistryTypes : unregister(t)
    \/ \E P \in RegistryParsers : set_fallback_parser(P)
    \/ clear
    \/ \E element \in RegistryPool : ParseElement(element)
    \/ \E elements \in Batches : ParseElements(elements)

Spec == Init /\ [][Next]_vars

(* A parser called directly: XParser().parse(element), for an element   *)
(* and a parser drawn at the start.                                      *)

InitParsers ==
    /\ parsers = NoParsers
    /\ fallback_parser = None
    /\ \E P \in ParserClasses, element \in ElementPool :
          call = [NoCall EXCEPT !.op = "pending", !.parser = P, !.element = element]
    /\ text = <<>>
    /\ pcb_data = None
    /\ error = ""
    /\ output = None
    /\ history = <<>>
    /\ OtherInit

Parse ==
    /\ call.op = "pending"
    /\ call' = [call EXCEPT !.op = "parse", !.result = parse(call.parser, call.element)]
    /\ UNCHANGED <<registry_vars, codec_vars>>
    /\ UNCHANGED other_vars

NextParsers == Parse

SpecParsers == InitParsers /\ [][NextParsers]_vars

-----------------------------------------------------------------------------
(* Text.  A text is the sequence of its lexemes: parentheses, single       *)
(* spaces, line breaks followed by an indentation, bare tokens and quoted  *)
(* tokens; two texts are byte-identical when the sequences are equal.      *)

Tok(t, s) == [s |-> s, t |-> t]
LP == Tok("(", "")
RP == Tok(")", "")
SP == Tok(" ", "")

indent_str == "  "

RECURSIVE IndentText(_)
IndentText(level) == IF level = 0 THEN "" ELSE indent_str \o IndentText(level - 1)

NL(level) == Tok("nl", IndentText(level))

(* Keyword Table and Layout Classifier *)

KeywordTable ==
    {"yes", "no", "signal", "user", "smd", "thru_hole", "rect", "circle", "oval",
     "solid", "dashed", "default", "edge", "not_allowed", "allowed", "setup"}

is_bare_keyword(s) == s \in KeywordTable

InlineTags ==
    {"version", "generator", "generator_version", "thickness", "paper", "at", "size",
     "layers", "layer", "start", "end", "width", "net", "stroke", "type", "xy", "uuid",
     "drill"}

\* a classifier that knows no inline tag
is_inline_never(tag) == FALSE

is_inline(tag) == tag \in InlineTags

(* Formatter.  `keywords` is the table consulted for Str values: the      *)
(* Formatter passes KeywordTable.                                          *)

\* an atom rendered by its text alone: a Symbol is looked up like a String
format_atom_by_text(v, keywords) ==
    CASE v.k \in {"sym", "str"} ->
            IF v.s \in keywords THEN Tok("bare", v.s) ELSE Tok("quoted", v.s)
      [] v.k = "num" -> Tok("bare", NumText(v.n))

format_atom(v, keywords) ==
    CASE v.k = "sym" -> Tok("bare", v.s)
      [] v.k = "str" -> IF v.s \in keywords THEN Tok("bare", v.s) ELSE Tok("quoted", v.s)
      [] v.k = "num" -> Tok("bare", NumText(v.n))

TagOf(v) ==
    IF v.k = "list" /\ v.items # <<>> /\ v.items[1].k \in {"sym", "str"}
    THEN v.items[1].s ELSE ""

RECURSIVE format_inline(_, _)
RECURSIVE inline_items(_, _)

\* (tag child1 child2 ...) joined by single spaces
format_inline(v, keywords) ==
    IF v.k # "list" THEN <<format_atom(v, keywords)>>
    ELSE <<LP>> \o inline_items(v.items, keywords) \o <<RP>>

inline_items(items, keywords) ==
    IF items = <<>> THEN <<>>
    ELSE IF Len(items) = 1 THEN format_inline(items[1], keywords)
    ELSE format_inline(items[1], keywords) \o <<SP>> \o inline_items(Tail(items), keywords)

RECURSIVE format_value(_, _, _)
RECURSIVE block_children(_, _, _)

format_value(v, level, keywords) ==
    IF v.k # "list" THEN <<format_atom(v, keywords)>>
    ELSE IF v.items = <<>> THEN <<LP, RP>>
    ELSE IF is_inline(TagOf(v)) THEN format_inline(v, keywords)
    ELSE <<LP>> \o format_inline(v.items[1], keywords)
             \o block_children(Tail(v.items), level + 1, keywords)
             \o <<NL(level), RP>>

\* each child on its own line at the given indentation
block_children(items, level, keywords) ==
    IF items = <<>> THEN <<>>
    ELSE <<NL(level)>> \o format_value(items[1], level, keywords)
             \o block_children(Tail(items), level, keywords)

HeaderTags == {"version", "generator", "generator_version"}

RECURSIVE HeaderLength(_)
HeaderLength(items) ==
    IF items # <<>> /\ TagOf(items[1]) \in HeaderTags THEN 1 + HeaderLength(Tail(items)) ELSE 0

RECURSIVE header_items(_, _)
header_items(items, keywords) ==
    IF items = <<>> THEN <<>>
    ELSE <<SP>> \o format_inline(items[1], keywords) \o header_items(Tail(items), keywords)

\* the root written with its first h children on the header line
pcb_layout(root, children, h, keywords) ==
    <<LP>> \o format_inline(root.items[1], keywords)
        \o header_items(SubSeq(children, 1, h), keywords)
        \o block_children(SubSeq(children, h + 1, Len(children)), 1, keywords)
        \o <<NL(0), RP>>

\* the document root: the header on one line, the other sections as blocks
format_pcb(root, keywords) ==
    pcb_layout(root, Tail(root.items), HeaderLength(Tail(root.items)), keywords)

(* Reader *)

ReadError == [k |-> "error"]

read_atom(tok) ==
    IF tok.t = "quoted" THEN Str(tok.s)
    ELSE IF IsNumeral(tok.s) THEN Num(NumeralValue(tok.s))
    ELSE Sym(tok.s)

Push(stack, v) ==
    [stack EXCEPT ![Len(stack)] = Lst(Append(stack[Len(stack)].items, v))]

\* the state of the reader: stack, the lists still open, outermost first; top,
\* the finished top-level value, None before there is one; failed, the text
\* was found malformed
Reading(stack, top) == [stack |-> stack, top |-> top, failed |-> FALSE]
Failed == [stack |-> <<>>, top |-> None, failed |-> TRUE]

\* the reader takes one token
read_token(tok, st) ==
    IF st.failed THEN st
    ELSE CASE tok.t \in {" ", "nl"} -> st
           [] tok.t = "(" ->
                IF st.top # None THEN Failed
                ELSE Reading(Append(st.stack, Lst(<<>>)), st.top)
           [] tok.t = ")" ->
                IF st.stack = <<>> THEN Failed
                ELSE IF Len(st.stack) = 1 THEN Reading(<<>>, st.stack[1])
                ELSE Reading(Push(SubSeq(st.stack, 1, Len(st.stack) - 1),
                                  st.stack[Len(st.stack)]), st.top)
           [] OTHER ->
                IF st.stack = <<>> THEN Failed
                ELSE Reading(Push(st.stack, read_atom(tok)), st.top)

\* the reader takes the tokens lo..hi, one after the other
RECURSIVE read_loop(_, _, _, _)
read_loop(toks, lo, hi, st) ==
    IF lo > hi THEN st
    ELSE IF lo = hi THEN read_token(toks[lo], st)
    ELSE LET half == read_loop(toks, lo, (lo + hi) \div 2, st)
         IN  IF half.failed THEN half
             ELSE read_loop(toks, (lo + hi) \div 2 + 1, hi, half)

\* at the end of the text no list is open and there is a value
read_end(st) ==
    IF st.failed \/ st.stack # <<>> \/ st.top = None THEN ReadError ELSE st.top

read(toks) == read_end(read_loop(toks, 1, Len(toks), Reading(<<>>, None)))

-----------------------------------------------------------------------------
(* Document Assembler: parse_string and dumps *)

\* the element parsers the document parser registers
DocumentParsers ==
    [t \in {"net", "segment", "via", "zone", "footprint"} |->
        CASE t = "net" -> "NetParser"
          [] t = "segment" -> "TrackParser"
          [] t = "via" -> "ViaParser"
          [] t = "zone" -> "ZoneParser"
          [] t = "footprint" -> "FootprintParser"]

\* the sections kept as they are read
SectionTags ==
    {"version", "generator", "generator_version", "general", "paper", "layers", "setup",
     "embedded_fonts"}

\* the place of a section in the canonical order of the output
SectionRank(tag) ==
    CASE tag = "version" -> 1
      [] tag = "generator" -> 2
      [] tag = "generator_version" -> 3
      [] tag = "general" -> 4
      [] tag = "paper" -> 5
      [] tag = "layers" -> 6
      [] tag = "setup" -> 7
      [] tag = "net" -> 8
      [] tag = "footprint" -> 9
      [] tag \in {"gr_line", "gr_rect"} -> 10
      [] tag = "segment" -> 11
      [] tag = "via" -> 12
      [] tag = "zone" -> 13
      [] tag = "embedded_fonts" -> 14
      [] OTHER -> 0
LastRank == 14
HeaderRank == 3

Entry(tag, kind, value, raw) == [value |-> value, tag |-> tag, kind |-> kind, raw |-> raw]

\* the entry of an element a registered parser was applied to
typed_entry(tag, value, item) ==
    IF value = None THEN None ELSE Entry(tag, "typed", value, item)

\* the entry a top-level item becomes; None when a registered parser gives
\* no result and the element is dropped
assemble_item(item) ==
    IF TagOf(item) \in DOMAIN DocumentParsers
    THEN typed_entry(TagOf(item), registry_parse_element(DocumentParsers, None, item), item)
    ELSE IF TagOf(item) \in SectionTags THEN Entry(TagOf(item), "section", None, item)
    ELSE Entry(TagOf(item), "opaque", None, item)

one_or_none(e) == IF e = None THEN <<>> ELSE <<e>>

RECURSIVE assemble_items(_)
assemble_items(items) ==
    IF items = <<>> THEN <<>>
    ELSE one_or_none(assemble_item(Head(items))) \o assemble_items(Tail(items))

NetZero == [k |-> "Net", name |-> Str(""), number |-> Num(0)]

IsNetEntry(e) == e.kind = "typed" /\ e.tag = "net"

\* where net 0 is put: in front of the first net, behind everything without one
NetZeroPlace(entries) ==
    LET net_places == {i \in 1..Len(entries) : IsNetEntry(entries[i])}
    IN  IF net_places = {} THEN Len(entries) + 1 ELSE Least(net_places)

with_net_zero(entries) ==
    LET p == NetZeroPlace(entries)
    IN  SubSeq(entries, 1, p - 1) \o <<Entry("net", "typed", NetZero, None)>>
            \o SubSeq(entries, p, Len(entries))

\* the net-zero rule without its test: net 0 is added every time
always_add_net_zero(entries) == with_net_zero(entries)

\* the net-zero rule left out
never_add_net_zero(entries) == entries

\* net 0 is added unless a parsed net has number 0
ensure_net_zero(entries) ==
    IF \E i \in 1..Len(entries) : IsNetEntry(entries[i]) /\ entries[i].value.number = Num(0)
    THEN entries
    ELSE with_net_zero(entries)

Document(entries) ==
    LET net_entries == SelectSeq(entries, IsNetEntry)
    IN  [k |-> "pcb", nets |-> [i \in 1..Len(net_entries) |-> net_entries[i].value],
         entries |-> entries]

\* what a text that is not a kicad_pcb list raises:
\* ValueError("Invalid KiCad PCB format")
InvalidFormatError == "ValueError"

\* the document made of what the reader returned, or the error raised
document_of(sexp) ==
    IF sexp = ReadError THEN [error |-> "ParseError", pcb |-> None]
    ELSE IF ~is_sexp_list(sexp) \/ ~Truthy(sexp)
            \/ get_symbol_name(At(sexp, 0)) # Str("kicad_pcb")
    THEN [error |-> InvalidFormatError, pcb |-> None]
    ELSE [error |-> "",
          pcb |-> Document(ensure_net_zero(assemble_items(Tail(sexp.items))))]

\* parse_string: the document, or the error it raises
parse_string(toks) == document_of(read(toks))

\* the rank an entry is written at: its section's, an opaque entry staying
\* behind the entry it followed in the source
RECURSIVE entry_ranks(_, _)
entry_ranks(entries, previous) ==
    IF entries = <<>> THEN <<>>
    ELSE LET r == IF Head(entries).kind = "opaque" THEN previous
                  ELSE SectionRank(Head(entries).tag)
         IN  <<r>> \o entry_ranks(Tail(entries), IF r > previous THEN r ELSE previous)

RECURSIVE in_canonical_order(_, _)
in_canonical_order(ranked, r) ==
    IF r > LastRank THEN <<>>
    ELSE LET at_r(x) == x.r = r
         IN  SelectSeq(ranked, at_r) \o in_canonical_order(ranked, r + 1)

\* a domain value lowered to a generic value again
lower(e) ==
    IF IsNetEntry(e) THEN L2("net", e.value.number, e.value.name) ELSE e.raw

ranked_entries(entries, ranks) ==
    [i \in 1..Len(entries) |-> [r |-> ranks[i], e |-> entries[i]]]

root_of(ordered) ==
    Lst(<<Sym("kicad_pcb")>> \o [i \in 1..Len(ordered) |-> lower(ordered[i].e)])

\* the entries written in the order they have in the document
source_order(ranked) == ranked

\* the entries written section by section in the canonical order
section_order(ranked) == in_canonical_order(ranked, 1)

dumps(pcb) ==
    format_pcb(root_of(section_order(
                   ranked_entries(pcb.entries, entry_ranks(pcb.entries, HeaderRank)))),
               KeywordTable)

-----------------------------------------------------------------------------
(* Properties of the registry and of the element parsers *)

\* the registry as it stands returns a domain value for the element
Accepted(element) ==
    registry_parse_element(parsers, fallback_parser, element) \notin {None, Raise}

\* the batch returned what its well-formed elements `good` give by themselves
BatchIsolated(good) ==
    /\ ~Raised(call.result)
    /\ Len(call.result.items) = Len(good)
    /\ call.result = registry_parse_elements(parsers, fallback_parser, good)
    /\ \A i \in 1..Len(good) :
          call.result.items[i] = registry_parse_element(parsers, fallback_parser, good[i])

Applied(P, element) == no_raise(parse_element(P, element))

\* C5: the registry dispatches on the name of the first item, Symbol or
\* String alike: the parser registered for that name is applied to the
\* element; with none registered the fallback parser's result is returned;
\* with neither the result is None.
C5_DispatchOnSymbolOrString ==
    (/\ call.op = "parse_element"
     /\ is_sexp_list(call.element)
     /\ Truthy(call.element)
     /\ At(call.element, 0).k \in {"sym", "str"})
    => LET name == At(call.element, 0).s
       IN  IF name \in DOMAIN parsers
           THEN element_type(parsers[name]) = name
                    => call.result = Applied(parsers[name], call.element)
           ELSE IF fallback_parser # None
           THEN call.result = parse(fallback_parser.cls, call.element)
           ELSE call.result = None

\* the value of the first sub-element `name` that carries one
FirstValue(element, name) ==
    LET named(c) == /\ is_sexp_list(c) /\ Len(c.items) >= 2
                    /\ c.items[1] = Sym(name)
        hits == SelectSeq(element.items, named)
    IN  IF hits = <<>> THEN None ELSE hits[1].items[2]

\* the value of the first property block called `name`
FirstProperty(element, name) ==
    LET named(c) == /\ is_sexp_list(c) /\ Len(c.items) >= 3
                    /\ c.items[1] = Sym("property") /\ c.items[2] = Str(name)
        hits == SelectSeq(element.items, named)
    IN  IF hits = <<>> THEN Str("") ELSE hits[1].items[3]

\* C9: of several sub-elements with the same name the first one in document
\* order determines the parsed field: the net of a track, a via or a zone is
\* that of its first net tag, and the reference and the value of a footprint
\* are those of its first "Reference" and first "Value" property.
C9_FirstDuplicateWins ==
    call.op = "parse" =>
        /\ call.result.k \in {"Track", "Via", "Zone"}
              => call.result.net = FirstValue(call.element, "net")
        /\ call.result.k = "Footprint"
              => /\ call.result.reference = FirstProperty(call.element, "Reference")
                 /\ call.result.value = FirstProperty(call.element, "Value")

\* C10: a parsed element keeps the uuid of its source, and has a generated,
\* non-empty uuid exactly when the source has none.
C10_UuidKeptOrGenerated ==
    (call.op = "parse" /\ call.result.k \in {"Track", "Via", "Zone", "Footprint"})
    => LET source == FirstValue(call.element, "uuid")
       IN  IF source # None THEN call.result.uuid = source
           ELSE call.result.uuid = Uuid4 /\ call.result.uuid # Str("")

-----------------------------------------------------------------------------
(* The texts handed to parse_string.  A document tree is written the way   *)
(* the authoring tool writes it: in the layout above, every Str quoted and *)
(* every Symbol bare.  The other texts are damaged or foreign ones.        *)

native_text(tree) == format_pcb(tree, {})

Header ==
    <<L1("version", Num(100)), L1("generator", Str("pcbnew")),
      L1("generator_version", Str("9.0"))>>

General == Lst(<<Sym("general"), L1("thickness", Num(200))>>)

Net0 == L2("net", Num(0), Str(""))

\* net lists of a document the tool wrote: net 0 first, every net well-formed
ReferenceNets ==
    { <<Net0>>, <<Net0, L2("net", Num(100), Str("GND"))>>,
      <<Net0, L2("net", Num(100), Str("signal"))>> }

OtherNets ==
    { <<>>, <<L2("net", Num(100), Str("GND"))>>, <<Net0, L1("net", Num(100))>>,
      <<L2("net", Num(0), Str("GND"))>> }

ReferenceElements == { <<>>, <<GoodTrack>>, <<GoodTrack, L0("embedded_fonts")>> }

OtherElements ==
    { <<BadTrack>>, <<L1("foo", Str("bar"))>>, <<L1("foo", Str("yes"))>>,
      <<L1("foo", Sym("bar")), GoodTrack>>, <<GoodTrack, L1("foo", Str("bar"))>>,
      <<Lst(<<>>)>> }

Tree(sections) == Lst(<<Sym("kicad_pcb")>> \o Header \o sections)

ReferenceTrees ==
    { Tree(g \o n \o e) : g \in {<<>>, <<General>>}, n \in ReferenceNets,
                          e \in ReferenceElements }

OtherTrees ==
    { Tree(g \o n \o e) : g \in {<<>>, <<General>>}, n \in ReferenceNets \cup OtherNets,
                          e \in OtherElements }
    \cup { Tree(g \o n \o e) : g \in {<<>>, <<General>>}, n \in OtherNets,
                               e \in ReferenceElements }
    \cup { Tree(e \o n) : n \in ReferenceNets, e \in {<<GoodTrack>>, <<L1("foo", Str("bar"))>>} }

ReferenceTexts == { native_text(tree) : tree \in ReferenceTrees }

DamagedTexts ==
    LET whole == native_text(Tree(<<Net0>>))
    IN  { SubSeq(whole, 1, Len(whole) - 1),
          whole \o <<RP>>,
          whole \o <<NL(0)>> \o whole,
          <<>>,
          <<Tok("bare", "kicad_pcb")>>,
          <<LP, Tok("bare", "not_a_pcb"), RP>>,
          <<LP, Tok("quoted", "kicad_pcb"), SP, LP, Tok("bare", "version"), SP,
            Tok("bare", "1"), RP, RP>>,
          <<LP, RP>>,
          format_inline(Tree(<<Net0>>), {}) }

TextPool == ReferenceTexts \cup { native_text(tree) : tree \in OtherTrees } \cup DamagedTexts

MaxCycles == 3

Text(toks) == [k |-> "text", toks |-> toks]

InitCodec ==
    /\ parsers = NoParsers
    /\ fallback_parser = None
    /\ call = NoCall
    /\ text \in TextPool
    /\ pcb_data = None
    /\ error = ""
    /\ output = None
    /\ history = <<>>
    /\ OtherInit

\* the outcome r of parse_string is stored
Loaded(r) == pcb_data' = r.pcb /\ error' = r.error

\* pcb_data = parser.parse_string(text)
ParseString ==
    /\ call.op = ""
    /\ Loaded(parse_string(text))
    /\ call' = [NoCall EXCEPT !.op = "parse_string"]
    /\ UNCHANGED <<registry_vars, text, output, history>>
    /\ UNCHANGED other_vars

\* output = parser.dumps(pcb_data)
Dumps ==
    /\ pcb_data # None
    /\ output = None
    /\ output' = Text(dumps(pcb_data))
    /\ history' = Append(history, dumps(pcb_data))
    /\ call' = [NoCall EXCEPT !.op = "dumps"]
    /\ UNCHANGED <<registry_vars, text, pcb_data, error>>
    /\ UNCHANGED other_vars

\* the next load -> save cycle starts: pcb_data = parser.parse_string(output)
Reload ==
    /\ output # None
    /\ Len(history) < MaxCycles
    /\ Loaded(parse_string(output.toks))
    /\ output' = None
    /\ call' = [NoCall EXCEPT !.op = "parse_string"]
    /\ UNCHANGED <<registry_vars, text, history>>
    /\ UNCHANGED other_vars

NextCodec == ParseString \/ Dumps \/ Reload

SpecCodec == InitCodec /\ [][NextCodec]_vars

-----------------------------------------------------------------------------
(* Properties of the codec *)

\* C1: round-trip identity.  A document the authoring tool wrote, all of
\* whose elements have registered parsers and known layouts, comes out of
\* parse_string and dumps byte for byte as it went in.
C1_RoundTripIdentity ==
    (text \in ReferenceTexts /\ Len(history) >= 1) => history[1] = text

IsOpaque(item) == TagOf(item) \notin (DOMAIN DocumentParsers \cup SectionTags)

Contains(toks, part) ==
    \E i \in 0..(Len(toks) - Len(part)) : SubSeq(toks, i + 1, i + Len(part)) = part

\* the opaque sections of the source are all written, as they were and in order
OpaqueKept(source, written) ==
    /\ \A i \in 1..Len(source) :
          Contains(history[1], block_children(<<source[i]>>, 1, {}))
    /\ written = source

OpaqueSections(toks) == SelectSeq(Tail(read(toks).items), IsOpaque)

\* C3: a top-level section without a registered parser comes out of a
\* parse -> render cycle byte-identical and in its place among the
\* sections of its kind.
C3_UnknownSectionPreserved ==
    (Len(history) >= 1 /\ read(text) # ReadError)
    => OpaqueKept(OpaqueSections(text), OpaqueSections(history[1]))

Significant(toks) ==
    LET is_token(tok) == tok.t \notin {" ", "nl"}
    IN  SelectSeq(toks, is_token)

Depth(sig, i) ==
    Cardinality({j \in 1..i : sig[j] = LP}) - Cardinality({j \in 1..i : sig[j] = RP})

\* the text is one balanced (kicad_pcb ...) list and nothing else
SingleKicadPcbList(toks) ==
    LET sig == Significant(toks)
    IN  /\ Len(sig) >= 3
        /\ sig[1] = LP
        /\ sig[2] = Tok("bare", "kicad_pcb")
        /\ \A i \in 1..(Len(sig) - 1) : Depth(sig, i) > 0
        /\ Depth(sig, Len(sig)) = 0

\* C6: parsing a text with unbalanced parentheses, or one that is not a
\* single kicad_pcb list, fails with ParseError, and no document is returned.
C6_MalformedTextIsParseError ==
    (call.op = "parse_string" /\ Len(history) = 0 /\ ~SingleKicadPcbList(text))
    => error = "ParseError" /\ pcb_data = None

-----------------------------------------------------------------------------
(* The Formatter as an object: PCBFormatter().format(value) and           *)
(* format_pcb(root), called one after the other on the same Formatter.     *)

\* a render that starts at the level the last one ended on, and in which a
\* block list does not step back to the level of its parent
format_no_reset(v, level) ==
    [indent_level |-> IF v.k = "list" /\ v.items # <<>> /\ ~is_inline(TagOf(v))
                      THEN level + 1 ELSE level,
     toks |-> format_value(v, level, KeywordTable)]

\* format(value): the text, and the indentation the Formatter is left with;
\* indentation is reset to zero at the start of the call
format(v, level) ==
    [indent_level |-> 0, toks |-> format_value(v, 0, KeywordTable)]

\* the values handed to format
AtomPool ==
    { Sym("F.Cu"), Str("F.Cu"), Str("yes"), Sym("yes"), Str("signal"), Sym("kicad_pcb"),
      Str("My Value"), Str(""), Num(4200), Num(-1050) }

Font == Lst(<<Sym("font"), L2("size", Num(100), Num(100)), L1("thickness", Num(15))>>)
Stroke == Lst(<<Sym("stroke"), L1("width", Num(15)), L1("type", Sym("solid"))>>)

InlinePool ==
    { Lst(<<Sym("at"), Num(10000), Num(5000), Num(9000)>>),
      Lst(<<Sym("layers"), Str("F.Cu"), Str("F.Paste"), Str("F.Mask")>>),
      L2("net", Num(0), Str("")), L2("net", Num(100), Str("signal")),
      L1("type", Sym("solid")), L1("layer", Str("yes")), Stroke }

BlockPool ==
    { Lst(<<Sym("footprint"), Str("Resistor_SMD:R_0603"), L1("layer", Str("F.Cu")),
            L2("at", Num(10000), Num(5000))>>),
      Lst(<<Sym("effects"), Font>>),
      Lst(<<Sym("gr_line"), L2("start", Num(0), Num(0)), L2("end", Num(10000), Num(0)),
            Stroke, L1("layer", Str("Edge.Cuts"))>>),
      Lst(<<Sym("property"), Str("Reference"), Str("R1"), Lst(<<Sym("effects"), Font>>)>>),
      GoodTrack }

MalformedPool == { Lst(<<>>), Lst(<<Sym("effects"), Lst(<<>>)>>), L1("at", Lst(<<>>)) }

ValuePool == AtomPool \cup InlinePool \cup BlockPool \cup MalformedPool

MaxRenders == 2

\* text = formatter.format(value)
Format(v) ==
    /\ Len(history) < MaxRenders
    /\ call' = [NoCall EXCEPT !.op = "format", !.element = v,
                              !.result = Text(format(v, indent_level).toks)]
    /\ indent_level' = format(v, indent_level).indent_level
    /\ history' = Append(history, format(v, indent_level).toks)
    /\ UNCHANGED <<registry_vars, text, pcb_data, error, output>>
    /\ UNCHANGED <<board_vars, collection_vars, element_vars>>

\* text = formatter.format_pcb(root)
FormatPcb(root) ==
    /\ Len(history) < MaxRenders
    /\ call' = [NoCall EXCEPT !.op = "format_pcb", !.element = root,
                              !.result = Text(format_pcb(root, KeywordTable))]
    /\ indent_level' = 0
    /\ history' = Append(history, format_pcb(root, KeywordTable))
    /\ UNCHANGED <<registry_vars, text, pcb_data, error, output>>
    /\ UNCHANGED <<board_vars, collection_vars, element_vars>>

NextFormatter ==
    \/ \E v \in ValuePool : Format(v)
    \/ \E root \in {Tree(<<Net0>>), Tree(<<General, Net0, GoodTrack>>)} : FormatPcb(root)

SpecFormatter == Init /\ [][NextFormatter]_vars

-----------------------------------------------------------------------------
(* Properties of the Formatter *)

IsAtom(v) == v.k \in {"sym", "str", "num"}
IsTextual(v) == v.k \in {"sym", "str"}

\* the lexeme the rule of the keyword table asks for
BareOrQuoted(v) ==
    IF v.k = "sym" \/ is_bare_keyword(v.s) THEN Tok("bare", v.s) ELSE Tok("quoted", v.s)

\* the lexeme of an atom, and the lexemes of a text without its layout
AtomLexeme(v) == IF IsTextual(v) THEN BareOrQuoted(v) ELSE Tok("bare", NumText(v.n))
IsLexeme(tok) == tok.t \in {"bare", "quoted"}
Lexemes(toks) == SelectSeq(toks, IsLexeme)

AllAtoms(v) == v.k = "list" /\ \A i \in 1..Len(v.items) : IsAtom(v.items[i])

\* C11: how a textual atom is rendered depends only on its kind and the
\* keyword table: a Symbol is emitted bare whatever its text, a String bare
\* if and only if its text is in the keyword table and quoted otherwise;
\* alone or as an item of a list.
C11_AtomByKindAndKeyword ==
    call.op = "format" =>
        /\ IsTextual(call.element) => call.result.toks = <<BareOrQuoted(call.element)>>
        /\ AllAtoms(call.element) =>
              Lexemes(call.result.toks) =
                  [i \in 1..Len(call.element.items) |-> AtomLexeme(call.element.items[i])]

\* a String of the keyword table was rendered bare, inside a list whose
\* other String was quoted
C11_Witness ==
    /\ call.op = "format"
    /\ call.element = L2("net", Num(100), Str("signal"))
    /\ Tok("bare", "signal") \in {call.result.toks[i] : i \in 1..Len(call.result.toks)}
    /\ Len(history) = 2
    /\ history[1] = <<Tok("quoted", "F.Cu")>>

NoLineBreak(toks) == \A i \in 1..Len(toks) : toks[i].t # "nl"

\* the items of every list are set apart by exactly one space
SingleSpaces(toks) ==
    /\ \A i \in 1..Len(toks) :
          toks[i] = SP => /\ 1 < i /\ i < Len(toks)
                          /\ toks[i - 1] \notin {SP, LP}
                          /\ toks[i + 1] \notin {SP, RP}
    /\ \A i \in 1..(Len(toks) - 1) :
          ~((IsLexeme(toks[i]) \/ toks[i] = RP) /\ (IsLexeme(toks[i + 1]) \/ toks[i + 1] = LP))

InlineList(v) == v.k = "list" /\ v.items # <<>> /\ TagOf(v) \in InlineTags
BlockList(v) == v.k = "list" /\ v.items # <<>> /\ TagOf(v) \notin InlineTags

\* every child list of the block list v, itself at `level`, stands on a line
\* of its own one unit deeper, and so on down the block lists below it
RECURSIVE ChildrenOnOwnLines(_, _, _)
ChildrenOnOwnLines(v, level, toks) ==
    \A i \in 2..Len(v.items) :
        v.items[i].k = "list" =>
            /\ Contains(toks, <<NL(level + 1)>> \o format_value(v.items[i], level + 1, KeywordTable))
            /\ BlockList(v.items[i]) => ChildrenOnOwnLines(v.items[i], level + 1, toks)

FreshText(v) == format(v, 0).toks

HasLineBreak(toks) == ~NoLineBreak(toks)

FormatError == [k |-> "raise", type |-> "FormatError"]

\* a Value tree with an empty List in it
RECURSIVE Malformed(_)
Malformed(v) ==
    v.k = "list" /\ (v.items = <<>> \/ \E i \in 1..Len(v.items) : Malformed(v.items[i]))

\* C14: rendering a malformed Value tree, in particular an empty List, fails
\* with FormatError; the Formatter returns no text for such a tree.
C14_MalformedTreeIsFormatError ==
    (call.op = "format" /\ Malformed(call.element)) => call.result = FormatError

-----------------------------------------------------------------------------
(* Properties of the written document *)

\* the places of a text where a section of known rank starts
SectionStarts(toks) ==
    {i \in 1..(Len(toks) - 1) :
        toks[i] = LP /\ Depth(toks, i - 1) = 1 /\ SectionRank(toks[i + 1].s) > 0}

\* the known sections of a text stand in the order of their ranks
Ascending(toks) ==
    \A i, j \in SectionStarts(toks) :
        i < j => SectionRank(toks[i + 1].s) <= SectionRank(toks[j + 1].s)

-----------------------------------------------------------------------------
(* IndexedCollection: items in insertion order, indexed by UUID *)

Item(uuid, value) == [uuid |-> uuid, value |-> value]

\* _rebuild_indexes: every UUID to the place of its item
uuid_index(items) ==
    [u \in {items[i].uuid : i \in 1..Len(items)} |->
        CHOOSE i \in 1..Len(items) : items[i].uuid = u]

Returned(coll, result) == [error |-> "", result |-> result, coll |-> coll]

added(coll, item) ==
    Returned([_items |-> Append(coll._items, item),
              _uuid_index |-> uuid_index(Append(coll._items, item)),
              _modified |-> TRUE], item)

\* an add that behaves as a dict assignment: the item with the same UUID is replaced
add_replacing(coll, item) ==
    IF item.uuid \in DOMAIN coll._uuid_index
    THEN Returned([coll EXCEPT !._items[coll._uuid_index[item.uuid]] = item,
                               !._modified = TRUE], item)
    ELSE added(coll, item)

\* collection.add(item): the item, or ValueError("... already exists")
add(coll, item) ==
    IF item.uuid \in DOMAIN coll._uuid_index
    THEN [error |-> "ValueError", result |-> None, coll |-> coll]
    ELSE added(coll, item)

\* collection.get(uuid): the item, or None
get(coll, uuid) ==
    IF uuid \in DOMAIN coll._uuid_index
    THEN coll._items[coll._uuid_index[uuid]]
    ELSE None

without(items, uuid) == SelectSeq(items, LAMBDA item : item.uuid # uuid)

\* collection.remove(uuid): True if the item was there and is removed
remove(coll, uuid) ==
    IF uuid \in DOMAIN coll._uuid_index
    THEN Returned([_items |-> without(coll._items, uuid),
                   _uuid_index |-> uuid_index(without(coll._items, uuid)),
                   _modified |-> TRUE], TRUE)
    ELSE Returned(coll, FALSE)

\* collection.mark_clean()
mark_clean(coll) == [coll EXCEPT !._modified = FALSE]

Uuids == {"uuid1", "uuid2", "uuid3"}
Values == {10, 20}
ItemPool == {Item(u, v) : u \in Uuids, v \in Values}

CollectionCall(op, item, r) ==
    /\ call' = [error |-> r.error, item |-> item, result |-> r.result, op |-> op]
    /\ collection' = r.coll
    /\ UNCHANGED <<registry_vars, codec_vars, formatter_vars, board_vars, element_vars>>

Add(item) == CollectionCall("add", item, add(collection, item))

Get(uuid) == CollectionCall("get", Item(uuid, 0), Returned(collection, get(collection, uuid)))

Remove(uuid) == CollectionCall("remove", Item(uuid, 0), remove(collection, uuid))

MarkClean == CollectionCall("mark_clean", None, Returned(mark_clean(collection), None))

NextCollection ==
    \/ \E item \in ItemPool : Add(item)
    \/ \E uuid \in Uuids : Get(uuid)
    \/ \E uuid \in Uuids : Remove(uuid)
    \/ MarkClean

SpecCollection == Init /\ [][NextCollection]_vars

-----------------------------------------------------------------------------
(* Properties of the collection *)

HoldsUuid(coll, uuid) == \E i \in 1..Len(coll._items) : coll._items[i].uuid = uuid

\* C20: adding an item whose UUID is already in the collection raises
\* ValueError and leaves the collection as it was: the same items in the same
\* order, the same length, and the UUID resolving to the item it resolved to
C20_DuplicateAddRejected ==
    [][(call'.op = "add" /\ HoldsUuid(collection, call'.item.uuid)) =>
           /\ call'.error = "ValueError"
           /\ collection'._items = collection._items
           /\ Len(collection'._items) = Len(collection._items)
           /\ get(collection', call'.item.uuid) = get(collection, call'.item.uuid)
           /\ collection' = collection]_vars

\* a duplicate add has been made, with an item that differs from the one held
C20_Witness ==
    /\ call.op = "add"
    /\ call.error = "ValueError"
    /\ HoldsUuid(collection, call.item.uuid)
    /\ get(collection, call.item.uuid) # call.item
    /\ Len(collection._items) > 1

-----------------------------------------------------------------------------
(* PCBBoard: files, the modified flag, managers and wrappers; the module-level config *)

MaxCalls == 4
MaxFootprints == 1

EmptyPcbText == native_text(Tree(<<Net0>>))
NotAPcbText == <<LP, Tok("bare", "not_a_pcb"), RP>>

\* the files the boards find: a board, a text that is not a board, a directory
InitialDisk ==
    [p \in Paths |->
        IF p = BoardPath THEN File(EmptyPcbText, 0)
        ELSE IF p = NotesPath THEN File(NotAPcbText, 0)
        ELSE IF p = DirPath THEN Directory
        ELSE NoFile]

Outcome(board, d, err) == [error |-> err, disk |-> d, board |-> board]

\* what load raises before it reads the file: ValueError("Invalid file
\* extension"), FileNotFoundError("PCB file not found"), ValueError("Path is
\* not a file")
access_error(path, d) ==
    IF path.suffix # ".kicad_pcb" THEN "ValueError"
    ELSE IF d[path].kind = "missing" THEN "FileNotFoundError"
    ELSE IF d[path].kind # "file" THEN "ValueError"
    ELSE ""

\* the board takes what the parser returned for the file, or the parser's error leaves
loaded(board, path, d, r) ==
    IF r.error # "" THEN Outcome(board, d, r.error)
    ELSE Outcome([footprints |-> d[path].footprints, tracks |-> EmptyCollection,
                  _modified |-> FALSE, _filepath |-> path], d, "")

\* board.load(filepath), the collections synced from the loaded data
load(board, path, d) ==
    IF access_error(path, d) # "" THEN Outcome(board, d, access_error(path, d))
    ELSE loaded(board, path, d, parse_string(d[path].text))

\* the file is written, the board remembers it and is clean;
\* ValueError("No filepath specified"), ValueError("Invalid file extension")
save_to(board, target, d) ==
    IF target = None THEN Outcome(board, d, "ValueError")
    ELSE IF target.suffix # ".kicad_pcb" THEN Outcome(board, d, "ValueError")
    ELSE Outcome([board EXCEPT !._filepath = target, !._modified = FALSE],
                 [d EXCEPT ![target] = File(EmptyPcbText, board.footprints)], "")

\* a save that writes a copy: the board keeps the path it had
save_a_copy(board, path, d) ==
    [save_to(board, IF path = None THEN board._filepath ELSE path, d)
        EXCEPT !.board._filepath = board._filepath]

\* board.save(filepath=None)
save(board, path, d) ==
    save_to(board, IF path = None THEN board._filepath ELSE path, d)

\* board.add_footprint(reference, lib_id, x, y)
add_footprint(board) == [board EXCEPT !.footprints = @ + 1, !._modified = TRUE]

\* board.routing.add_track(start, end, width, layer): self.board.tracks.add(track)
add_track(board, uuid, width) ==
    [board EXCEPT !.tracks = add(@, Item(uuid, width)).coll]

\* the item of the wrapper takes the width, the wrapper's collection is marked
with_width(coll, uuid, width) ==
    [coll EXCEPT !._items[coll._uuid_index[uuid]].value = width, !._modified = TRUE]

\* board.tracks.get(uuid).width = width
set_width(board, uuid, width) == [board EXCEPT !.tracks = with_width(@, uuid, width)]

\* board.reset_modified()
reset_modified(board) == [board EXCEPT !._modified = FALSE]

\* board.is_modified
is_modified(board) == board._modified

\* board.filepath
filepath(board) == board._filepath

TrackUuids == {"t1", "t2"}

InitBoard ==
    /\ parsers = NoParsers
    /\ fallback_parser = None
    /\ call = [error |-> "", result |-> None, op |-> "", caller |-> "", arg |-> None]
    /\ text = <<>>
    /\ pcb_data = None
    /\ error = ""
    /\ output = None
    /\ history = <<>>
    /\ indent_level = 0
    /\ boards = [c \in Callers |-> NewBoard]
    /\ config = default_width
    /\ disk = InitialDisk
    /\ ghost = [c \in Callers |-> Alone]
    /\ ncalls = 0
    /\ collection = EmptyCollection
    /\ via = None
    /\ pcb_board = NewPcb
    /\ track_collection = NewTrackCollection
    /\ footprint_collection = NewFootprintCollection

BoardCall(c, op, arg, result, err) ==
    /\ ncalls < MaxCalls
    /\ ncalls' = ncalls + 1
    /\ call' = [error |-> err, result |-> result, op |-> op, caller |-> c, arg |-> arg]
    /\ UNCHANGED <<registry_vars, codec_vars, formatter_vars, collection_vars, element_vars>>

\* the outcome r of a call of c on its board is stored
Stored(c, r) == boards' = [boards EXCEPT ![c] = r.board] /\ disk' = r.disk

\* what c, alone, knows after a call that ended with err
Seen(c, err, dirty, recent) ==
    ghost' = IF err = "" THEN [ghost EXCEPT ![c].dirty = dirty, ![c].recent = recent]
             ELSE ghost

Load(c, path) ==
    /\ BoardCall(c, "load", path, None, load(boards[c], path, disk).error)
    /\ Stored(c, load(boards[c], path, disk))
    /\ Seen(c, load(boards[c], path, disk).error, FALSE, path)
    /\ UNCHANGED config

Save(c, path) ==
    /\ BoardCall(c, "save", path, None, save(boards[c], path, disk).error)
    /\ Stored(c, save(boards[c], path, disk))
    /\ Seen(c, save(boards[c], path, disk).error, FALSE,
            IF path = None THEN ghost[c].recent ELSE path)
    /\ UNCHANGED config

AddFootprint(c) ==
    /\ boards[c].footprints < MaxFootprints
    /\ BoardCall(c, "add_footprint", None, None, "")
    /\ boards' = [boards EXCEPT ![c] = add_footprint(@)]
    /\ Seen(c, "", TRUE, ghost[c].recent)
    /\ UNCHANGED <<config, disk>>

\* uuid4 gives a UUID the collection does not hold
AddTrack(c, uuid) ==
    /\ uuid \notin DOMAIN boards[c].tracks._uuid_index
    /\ BoardCall(c, "routing.add_track", None, Str(uuid), "")
    /\ boards' = [boards EXCEPT ![c] = add_track(@, uuid, 25)]
    /\ Seen(c, "", TRUE, ghost[c].recent)
    /\ UNCHANGED <<config, disk>>

SetWidth(c, uuid) ==
    /\ uuid \in DOMAIN boards[c].tracks._uuid_index
    /\ BoardCall(c, "track.width", Str(uuid), None, "")
    /\ boards' = [boards EXCEPT ![c] = set_width(@, uuid, 50)]
    /\ Seen(c, "", TRUE, ghost[c].recent)
    /\ UNCHANGED <<config, disk>>

ResetModified(c) ==
    /\ BoardCall(c, "reset_modified", None, None, "")
    /\ boards' = [boards EXCEPT ![c] = reset_modified(@)]
    /\ Seen(c, "", FALSE, ghost[c].recent)
    /\ UNCHANGED <<config, disk>>

\* config.track.default_width = width
SetDefaultWidth(c, width) ==
    /\ BoardCall(c, "config.track.default_width =", width, None, "")
    /\ config' = width
    /\ ghost' = [ghost EXCEPT ![c].default_width = width]
    /\ UNCHANGED <<boards, disk>>

\* config.track.default_width
GetDefaultWidth(c) ==
    /\ BoardCall(c, "config.track.default_width", None, config, "")
    /\ UNCHANGED <<boards, config, disk, ghost>>

NextBoard ==
    \E c \in Callers :
        \/ \E path \in Paths : Load(c, path)
        \/ \E path \in {None, BoardPath, CopyPath, TextPath} : Save(c, path)
        \/ AddFootprint(c)
        \/ \E uuid \in TrackUuids : AddTrack(c, uuid)
        \/ \E uuid \in TrackUuids : SetWidth(c, uuid)
        \/ ResetModified(c)
        \/ SetDefaultWidth(c, Num(50))
        \/ GetDefaultWidth(c)

SpecBoard == InitBoard /\ [][NextBoard]_vars

-----------------------------------------------------------------------------
(* Properties of the boards *)

\* C16: the library holds no shared mutable global state: whatever the
\* interleaving, what a caller reads is what it would read running alone
C16_CallersIsolated ==
    call.op = "config.track.default_width" =>
        call.result = ghost[call.caller].default_width

\* the load of path cannot get at a file: no such path, not the extension of a
\* board, or a directory
FileAccessFailure(path, d) ==
    \/ path.suffix # ".kicad_pcb"
    \/ d[path].kind = "missing"
    \/ d[path].kind = "dir"

\* C17: a load that fails on the path (missing, wrong extension, directory)
\* raises an error of another kind than the one raised for content that is
\* not a PCB document
C17_AccessErrorIsNotParseError ==
    (call.op = "load" /\ FileAccessFailure(call.arg, disk)) =>
        call.error \notin {"", InvalidFormatError}

\* C18: is_modified is false on a new board and after a load, true from any
\* change of the board's contents on (footprint, track, directly, through a
\* manager or a wrapper), and false again after a save or reset_modified
C18_ModifiedTracksChanges ==
    \A c \in Callers : is_modified(boards[c]) = ghost[c].dirty

-----------------------------------------------------------------------------
(* Properties of the registry operations *)

\* C22: register raises ValueError when the element type already has a
\* registered parser (a register call that adds no element type found the
\* type registered), and the registry stays as it was
C22_RegisterTwiceRaises ==
    [][(call'.op = "register" /\ DOMAIN parsers' = DOMAIN parsers) =>
           (Raised(call'.result) /\ parsers' = parsers)]_vars

-----------------------------------------------------------------------------
(* Properties of the zone parser *)

\* the names that follow the first sub-element (layers ...) of an element
LayerNames(element) ==
    LET named(c) == is_sexp_list(c) /\ Len(c.items) >= 2 /\ c.items[1] = Sym("layers")
    IN  Tail(SelectSeq(element.items, named)[1].items)

\* C30: the layer of a parsed Zone is the layer its source names, written as
\* (layer L) or as (layers L ...)
C30_ZoneLayerFromSource ==
    (call.op = "parse" /\ call.result.k = "Zone") =>
        IF FirstValue(call.element, "layer") # None
        THEN call.result.layer = FirstValue(call.element, "layer")
        ELSE FirstValue(call.element, "layers") # None
                => call.result.layer = Str(JoinStr(LayerNames(call.element)))

-----------------------------------------------------------------------------
(* Via: PCBElementFactory, ViaParser and the setters of ViaWrapper.       *)
(* Sizes are hundredths of a millimetre.                                   *)

min_size == 20
max_size == 1000
min_drill == 10
BlindViaSize == 60
BlindViaDrill == 30

\* the layer names of the inputs that end in ".Cu"
CopperLayers == {"F.Cu", "B.Cu", "In1.Cu"}
LayerPool == CopperLayers \cup {"F.SilkS"}

\* validate_via_size with the pairing test left out
validate_bounds_only(size, drill) ==
    IF size < min_size THEN "GeometryError"
    ELSE IF size > max_size THEN "GeometryError"
    ELSE IF drill < min_drill THEN "GeometryError"
    ELSE ""

\* validate_via_size(size, drill): the error raised, "" if none
validate_via_size(size, drill) ==
    IF size < min_size THEN "GeometryError"
    ELSE IF size > max_size THEN "GeometryError"
    ELSE IF drill < min_drill THEN "GeometryError"
    ELSE IF drill >= size THEN "GeometryError"
    ELSE ""

\* PCBElementFactory.create_via(position, size, drill, layers)
create_via(size, drill, layers) ==
    [k |-> "Via", net |-> None, uuid |-> Uuid4, position |-> <<0, 0>>,
     size |-> size, drill |-> drill, layers |-> layers]

\* PCBElementFactory.create_through_via(position)
create_through_via ==
    create_via(DefaultViaSize, DefaultViaDrill, <<Str("F.Cu"), Str("B.Cu")>>)

\* PCBElementFactory.create_blind_via(position, from_layer, to_layer)
create_blind_via(from_layer, to_layer) ==
    create_via(BlindViaSize, BlindViaDrill,
               IF to_layer # from_layer THEN <<Str(from_layer), Str(to_layer)>>
               ELSE <<Str(from_layer)>>)

Assigned(v, err) == [error |-> err, via |-> v]

\* wrapper.size = value
set_size(v, value) ==
    IF validate_via_size(value, v.drill) # ""
    THEN Assigned(v, validate_via_size(value, v.drill))
    ELSE Assigned([v EXCEPT !.size = value], "")

\* wrapper.drill = value
set_drill(v, value) ==
    IF validate_via_size(v.size, value) # ""
    THEN Assigned(v, validate_via_size(v.size, value))
    ELSE Assigned([v EXCEPT !.drill = value], "")

\* wrapper.layers = value: copper layers only, a valid list, at least two
set_layers(v, value) ==
    IF \E i \in 1..Len(value) : value[i] \notin CopperLayers
    THEN Assigned(v, "ValidationError")
    ELSE IF value = <<>> THEN Assigned(v, "LayerError")
    ELSE IF Len(value) < 2 THEN Assigned(v, "ValidationError")
    ELSE Assigned([v EXCEPT !.layers = [i \in 1..Len(value) |-> Str(value[i])]], "")

SizePool == {5, 10, 20, 30, 40, 80, 1000, 1001}
LayersPool ==
    {<<>>, <<"F.Cu">>, <<"F.Cu", "B.Cu">>, <<"In1.Cu", "B.Cu">>, <<"F.Cu", "F.SilkS">>}

At12 == L2("at", Num(100), Num(200))
ViaSources ==
    { Lst(<<Sym("via"), At12>> \o s \o l) :
        s \in { <<>>, <<L1("size", Num(30)), L1("drill", Num(40))>> },
        l \in { <<>>, <<L2("layers", Str("F.Cu"), Str("In1.Cu"))>>,
                <<L1("layers", Str("F.Cu"))>> } }

ViaCall(op, arg, r) ==
    /\ call' = [error |-> r.error, op |-> op, arg |-> arg]
    /\ via' = r.via
    /\ UNCHANGED <<registry_vars, codec_vars, formatter_vars, board_vars, collection_vars,
                   pcb_board, track_collection, footprint_collection>>

\* via = ViaParser().parse(element)
ParseVia(element) ==
    ViaCall("parse", element, Assigned(parse("ViaParser", element), ""))

CreateThroughVia == ViaCall("create_through_via", None, Assigned(create_through_via, ""))

CreateBlindVia(from_layer, to_layer) ==
    ViaCall("create_blind_via", <<from_layer, to_layer>>,
            Assigned(create_blind_via(from_layer, to_layer), ""))

SetSize(value) == via # None /\ ViaCall("size", value, set_size(via, value))

SetDrill(value) == via # None /\ ViaCall("drill", value, set_drill(via, value))

SetLayers(value) == via # None /\ ViaCall("layers", value, set_layers(via, value))

NextVia ==
    \/ \E element \in ViaSources : ParseVia(element)
    \/ CreateThroughVia
    \/ \E from_layer, to_layer \in CopperLayers : CreateBlindVia(from_layer, to_layer)
    \/ \E value \in SizePool : SetSize(value)
    \/ \E value \in SizePool : SetDrill(value)
    \/ \E value \in LayersPool : SetLayers(value)

SpecVia == Init /\ [][NextVia]_vars

-----------------------------------------------------------------------------
(* Properties of the vias *)

\* C25: size and drill assignments keep drill < size: on a via with
\* drill < size an assignment either is made and leaves drill < size within
\* the bounds, or raises and leaves size and drill as they were
C25_DrillBelowSize ==
    [][(call'.op \in {"size", "drill"} /\ via.drill < via.size) =>
           /\ via'.drill < via'.size
           /\ IF call'.error = ""
              THEN /\ via'.size >= min_size /\ via'.size <= max_size
                   /\ via'.drill >= min_drill
                   /\ call'.arg \in {via'.size, via'.drill}
              ELSE via'.size = via.size /\ via'.drill = via.drill]_vars

\* a drill as large as the size was refused, after both had been changed
C25_Witness ==
    /\ call.op = "drill"
    /\ call.error = "GeometryError"
    /\ call.arg = via.size
    /\ via.size = 30
    /\ via.drill = 20

\* C26: every Via spans at least 2 layers, whether it was parsed, made by the
\* factory or changed through the wrapper
C26_ViaSpansTwoLayers == via # None => Len(via.layers) >= 2

-----------------------------------------------------------------------------
(* The PCBBoard with its collections and managers
   (core/pcb_board_updated.py, managers/routing.py, managers/drc.py) *)

MaxElements == 3      \* the elements a board holds at most
MaxViolations == 3    \* single checks are run while the list is this short

\* core.types dataclasses; an element's uuid is its index in heap
Track(width, net, net_name) ==
    [k |-> "Track", net |-> net, net_name |-> net_name, width |-> width]
Via(size, drill, net, net_name) ==
    [k |-> "Via", net |-> net, net_name |-> net_name, size |-> size, drill |-> drill]
Footprint(reference) ==
    [k |-> "Footprint", position |-> [x |-> 0, y |-> 0], pads |-> <<>>,
     rotation |-> 0, reference |-> reference]

\* the uuids of the elements of one kind, in file order
OfKind(heap, kind) ==
    SelectSeq([i \in 1..Len(heap) |-> i], LAMBDA i : heap[i].k = kind)

\* PCBBoard(filepath): load fills the pcb_data lists, then
\* _sync_collections_from_data builds the collections over the same objects
opened(design) ==
    [pcb_data |-> [footprints |-> OfKind(design, "Footprint"),
                   tracks |-> OfKind(design, "Track"),
                   vias |-> OfKind(design, "Via")],
     footprints |-> OfKind(design, "Footprint"),
     tracks |-> OfKind(design, "Track"),
     vias |-> OfKind(design, "Via"),
     heap |-> design,
     _violations |-> <<>>]

\* RoutingManager.add_track: self.board.tracks.add(track); returns the uuid
routing_add_track(board, width, net, net_name) ==
    [result |-> Len(board.heap) + 1,
     board |-> [board EXCEPT !.heap = Append(@, Track(width, net, net_name)),
                             !.tracks = Append(@, Len(board.heap) + 1)]]

\* RoutingManager.add_via: self.board.vias.add(via); net_name is not handed on
routing_add_via(board, size, drill, net) ==
    [result |-> Len(board.heap) + 1,
     board |-> [board EXCEPT !.heap = Append(@, Via(size, drill, net, None)),
                             !.vias = Append(@, Len(board.heap) + 1)]]

DRCViolation(type, severity, element1_uuid) ==
    [type |-> type, severity |-> severity, element1_uuid |-> element1_uuid]

\* the body of the loop of check_track_widths, for one track
track_width_violations(track, uuid, min_width, max_width) ==
    IF track.width < min_width
    THEN <<DRCViolation("track_width", "error", uuid)>>
    ELSE IF track.width > max_width
    THEN <<DRCViolation("track_width", "warning", uuid)>>
    ELSE <<>>

\* the body of the loop of check_via_sizes, for one via
via_size_violations(v, uuid, min_via_size, min_via_drill) ==
    (IF v.size < min_via_size THEN <<DRCViolation("via_size", "error", uuid)>> ELSE <<>>)
    \o (IF v.drill < min_via_drill THEN <<DRCViolation("via_drill", "error", uuid)>> ELSE <<>>)
    \o (IF v.drill >= v.size THEN <<DRCViolation("via_drill", "error", uuid)>> ELSE <<>>)

\* what the loops find in the first n entries of pcb_data["tracks"] / ["vias"]
RECURSIVE tracks_found(_, _, _, _)
tracks_found(board, n, min_width, max_width) ==
    IF n = 0 THEN <<>>
    ELSE tracks_found(board, n - 1, min_width, max_width)
         \o track_width_violations(board.heap[board.pcb_data.tracks[n]],
                                   board.pcb_data.tracks[n], min_width, max_width)

RECURSIVE vias_found(_, _, _, _)
vias_found(board, n, min_via_size, min_via_drill) ==
    IF n = 0 THEN <<>>
    ELSE vias_found(board, n - 1, min_via_size, min_via_drill)
         \o via_size_violations(board.heap[board.pcb_data.vias[n]],
                                board.pcb_data.vias[n], min_via_size, min_via_drill)

\* self._violations.append(...) for each one found; count is returned
appended(board, found) ==
    [result |-> Len(found), board |-> [board EXCEPT !._violations = @ \o found]]

\* the same with the list emptied first
replaced(board, found) ==
    [result |-> Len(found), board |-> [board EXCEPT !._violations = found]]

check_track_widths(board, min_width, max_width) ==
    appended(board, tracks_found(board, Len(board.pcb_data.tracks), min_width, max_width))

check_via_sizes(board, min_via_size, min_via_drill) ==
    appended(board, vias_found(board, Len(board.pcb_data.vias), min_via_size, min_via_drill))

\* count += self.check_via_sizes(...), after the track check
and_via_sizes(checked, min_via_size, min_via_drill) ==
    [result |-> checked.result
                 + check_via_sizes(checked.board, min_via_size, min_via_drill).result,
     board |-> check_via_sizes(checked.board, min_via_size, min_via_drill).board]

\* DRCManager.check_all: self._violations.clear(), then both checks
check_all(board, min_track_width, max_track_width, min_via_size, min_via_drill) ==
    and_via_sizes(check_track_widths([board EXCEPT !._violations = <<>>],
                                     min_track_width, max_track_width),
                  min_via_size, min_via_drill)

\* the attribute DRCManager.violations
violations(board) == board._violations

-----------------------------------------------------------------------------
(* Calls on the board: opening, routing, design rule checks *)

\* the boards that are opened: elements with widths and sizes on both sides
\* of the limits
Designs ==
    { <<Track(5, Num(1), Str("GND")), Via(80, 40, Num(1), Str("GND"))>>,
      <<Track(25, Num(1), Str("GND")), Via(15, 15, None, None)>>,
      <<Track(2000, None, None)>> }

TrackLimits == {<<10, 1000>>, <<30, 1000>>}
ViaLimits == {<<20, 10>>, <<100, 50>>}

PcbCall(op, arg, r) ==
    /\ call' = [result |-> r.result, op |-> op, arg |-> arg]
    /\ pcb_board' = r.board
    /\ UNCHANGED <<registry_vars, codec_vars, formatter_vars, board_vars, collection_vars,
                   via, track_collection, footprint_collection>>

\* pcb = PCBBoard(path)
Open(design) == PcbCall("PCBBoard", design, [result |-> None, board |-> opened(design)])

\* pcb.routing.add_track(start, end, width, layer, net, net_name)
RoutingAddTrack(width) ==
    /\ Len(pcb_board.heap) < MaxElements
    /\ PcbCall("add_track", width, routing_add_track(pcb_board, width, Num(1), Str("GND")))

\* pcb.routing.add_via(position, size, drill)
RoutingAddVia(size, drill) ==
    /\ Len(pcb_board.heap) < MaxElements
    /\ PcbCall("add_via", <<size, drill>>, routing_add_via(pcb_board, size, drill, Num(1)))

\* pcb.drc.check_track_widths(min_width, max_width)
CheckTrackWidths(limits) ==
    /\ Len(pcb_board._violations) <= MaxViolations
    /\ PcbCall("check_track_widths", limits,
               check_track_widths(pcb_board, limits[1], limits[2]))

\* pcb.drc.check_via_sizes(min_via_size, max_size, min_via_drill)
CheckViaSizes(limits) ==
    /\ Len(pcb_board._violations) <= MaxViolations
    /\ PcbCall("check_via_sizes", limits,
               check_via_sizes(pcb_board, limits[1], limits[2]))

\* pcb.drc.check_all(...) / pcb.check_drc(...)
CheckAll(track_limits, via_limits) ==
    PcbCall("check_all", <<track_limits, via_limits>>,
            check_all(pcb_board, track_limits[1], track_limits[2],
                      via_limits[1], via_limits[2]))

NextDrc ==
    \/ \E design \in Designs : Open(design)
    \/ \E width \in {5, 25} : RoutingAddTrack(width)
    \/ \E size \in {15, 80} : RoutingAddVia(size, 40)
    \/ \E limits \in TrackLimits : CheckTrackWidths(limits)
    \/ \E limits \in ViaLimits : CheckViaSizes(limits)
    \/ \E track_limits \in TrackLimits, via_limits \in ViaLimits :
           CheckAll(track_limits, via_limits)

SpecDrc == Init /\ [][NextDrc]_vars

-----------------------------------------------------------------------------
(* Properties of the design rule checks and of the board's views *)

\* C27: DRCManager.violations holds exactly the violations found by the most
\* recent check: after check_track_widths, check_via_sizes or check_all has
\* returned, the list is what that call found, with nothing left over from
\* earlier checks, and the count check_all returned is the length of the list
C27_ViolationsOfLastCheck ==
    /\ call.op = "check_track_widths" =>
           violations(pcb_board)
               = tracks_found(pcb_board, Len(pcb_board.pcb_data.tracks),
                              call.arg[1], call.arg[2])
    /\ call.op = "check_via_sizes" =>
           violations(pcb_board)
               = vias_found(pcb_board, Len(pcb_board.pcb_data.vias),
                            call.arg[1], call.arg[2])
    /\ call.op = "check_all" =>
           /\ violations(pcb_board)
                  = tracks_found(pcb_board, Len(pcb_board.pcb_data.tracks),
                                 call.arg[1][1], call.arg[1][2])
                    \o vias_found(pcb_board, Len(pcb_board.pcb_data.vias),
                                  call.arg[2][1], call.arg[2][2])
           /\ call.result = Len(violations(pcb_board))

\* the uuids a list of references holds
Held(ids) == {ids[i] : i \in 1..Len(ids)}

\* C28: the board has one view of its elements: the tracks, vias and
\* footprints of the collections are those of the pcb_data lists the DRC,
\* validation and net managers read
C28_OneViewOfElements ==
    /\ Held(pcb_board.tracks) = Held(pcb_board.pcb_data.tracks)
    /\ Held(pcb_board.vias) = Held(pcb_board.pcb_data.vias)
    /\ Held(pcb_board.footprints) = Held(pcb_board.pcb_data.footprints)

-----------------------------------------------------------------------------
(* PlacementManager (managers/placement.py) *)

\* FootprintCollection._reference_index of the board's collection, brought
\* up to date: reference -> uuid, the last footprint winning
references_of(board) ==
    {board.heap[board.footprints[i]].reference : i \in 1..Len(board.footprints)}

last_with(board, reference) ==
    board.footprints[
        CHOOSE i \in 1..Len(board.footprints) :
            /\ board.heap[board.footprints[i]].reference = reference
            /\ \A j \in (i + 1)..Len(board.footprints) :
                   board.heap[board.footprints[j]].reference # reference]

\* self.board.footprints.get_by_reference(ref) is not None
found_by_reference(board, reference) == reference \in references_of(board)

\* footprint.position = Point(x, y) on the footprint of that reference
moved(board, reference, position) ==
    [board EXCEPT !.heap[last_with(board, reference)].position = position]

\* footprint.rotation = math.degrees(angle + math.pi / 2), angle = i * 2 pi / count
rotated(board, reference, i, count) ==
    [board EXCEPT !.heap[last_with(board, reference)].rotation = 90 + (360 * i) \div count]

\* the position of entry i (from 0) of a grid starting at (0, 0)
grid_position(i, spacing, columns) ==
    [x |-> (i % columns) * spacing, y |-> (i \div columns) * spacing]

\* the position of entry i (from 0) of count on a circle: angle = i * 2 pi / count,
\* kept as the fraction of the turn
circle_position(i, count, radius) ==
    [radius |-> radius, center |-> [x |-> 0, y |-> 0], turn |-> <<i, count>>]

\* the loop of place_in_grid over the first n references; count counts the
\* footprints that were found
RECURSIVE grid_loop(_, _, _, _, _)
grid_loop(board, references, n, spacing, columns) ==
    IF n = 0 THEN [result |-> 0, board |-> board]
    ELSE LET before == grid_loop(board, references, n - 1, spacing, columns)
         IN  IF ~found_by_reference(before.board, references[n]) THEN before
             ELSE [result |-> before.result + 1,
                   board |-> moved(before.board, references[n],
                                   grid_position(n - 1, spacing, columns))]

place_in_grid(board, references, spacing, columns) ==
    grid_loop(board, references, Len(references), spacing, columns)

\* the loop of place_in_circle over the first n references
RECURSIVE circle_loop(_, _, _, _)
circle_loop(board, references, n, radius) ==
    IF n = 0 THEN board
    ELSE LET before == circle_loop(board, references, n - 1, radius)
         IN  IF ~found_by_reference(before, references[n]) THEN before
             ELSE rotated(moved(before, references[n],
                                circle_position(n - 1, Len(references), radius)),
                          references[n], n - 1, Len(references))

\* count = len(references) is what is returned, whatever the loop skipped
place_in_circle(board, references, radius) ==
    IF Len(references) = 0 THEN [result |-> 0, board |-> board]
    ELSE [result |-> Len(references),
          board |-> circle_loop(board, references, Len(references), radius)]

-----------------------------------------------------------------------------
(* Calls on the placement manager *)

PlacedDesigns ==
    { <<Footprint("R1"), Footprint("R2"), Footprint("R3")>>,
      <<Footprint("R1"), Footprint("C1")>> }

ReferenceLists ==
    { <<>>, <<"R1">>, <<"R1", "R2">>, <<"R1", "R9", "R2">>, <<"R9">>,
      <<"C1", "R3", "R1">> }

OpenPlaced(design) ==
    PcbCall("PCBBoard", design, [result |-> None, board |-> opened(design)])

\* pcb.placement.place_in_grid(references, 0, 0, spacing, spacing, columns)
PlaceInGrid(references, spacing, columns) ==
    PcbCall("place_in_grid", references,
            place_in_grid(pcb_board, references, spacing, columns))

\* pcb.placement.place_in_circle(references, 0, 0, radius)
PlaceInCircle(references, radius) ==
    PcbCall("place_in_circle", references, place_in_circle(pcb_board, references, radius))

NextPlacement ==
    \/ \E design \in PlacedDesigns : OpenPlaced(design)
    \/ \E references \in ReferenceLists, columns \in {1, 2} :
           PlaceInGrid(references, 5, columns)
    \/ \E references \in ReferenceLists : PlaceInCircle(references, 10)

SpecPlacement == Init /\ [][NextPlacement]_vars

-----------------------------------------------------------------------------
(* Properties of the placement *)

\* the entries of a list of references that match a footprint of the board
Matching(references) ==
    {i \in 1..Len(references) : found_by_reference(pcb_board, references[i])}

\* C29: place_in_circle returns the number of components it placed: a
\* reference that matches no footprint is skipped and not counted, exactly
\* as in place_in_grid
C29_CircleCountsPlaced ==
    call.op \in {"place_in_circle", "place_in_grid"} =>
        call.result = Cardinality(Matching(call.arg))

-----------------------------------------------------------------------------
(* Nets: validate_net, the wrappers' net / net_name and NetManager.rename_net
   (core/validation.py, wrappers/track.py, wrappers/via.py, managers/net.py) *)

Pad(net, net_name) == [net |-> net, net_name |-> net_name]

\* the truth value of a net name: neither None nor ""
Named(net_name) == net_name # None /\ net_name # Str("")

\* validate_net(net, net_name): "" when it passes
validate_net(net, net_name) ==
    IF net.n < 0 THEN "NetError"
    ELSE IF net.n = 0 /\ Named(net_name) THEN "NetError"
    ELSE ""

\* TrackWrapper.net / ViaWrapper.net = value
set_net(board, uuid, value) ==
    IF value # None /\ validate_net(value, board.heap[uuid].net_name) # ""
    THEN [result |-> Raise, board |-> board]
    ELSE [result |-> None, board |-> [board EXCEPT !.heap[uuid].net = value]]

\* TrackWrapper.net_name / ViaWrapper.net_name = value
set_net_name(board, uuid, value) ==
    [result |-> None, board |-> [board EXCEPT !.heap[uuid].net_name = value]]

\* the pads of a footprint after rename_net
renamed_pads(pads, old_net, new_name) ==
    [i \in 1..Len(pads) |->
        IF pads[i].net = Num(old_net) THEN [pads[i] EXCEPT !.net_name = Str(new_name)]
        ELSE pads[i]]

\* an element of a pcb_data list after rename_net
renamed(element, old_net, new_name) ==
    IF element.k = "Footprint"
    THEN [element EXCEPT !.pads = renamed_pads(@, old_net, new_name)]
    ELSE IF element.net = Num(old_net)
    THEN [element EXCEPT !.net_name = Str(new_name)]
    ELSE element

\* the number of pads, tracks and vias of the pcb_data lists on a net
on_net(board, old_net) ==
    Cardinality({<<i, j>> \in (1..Len(board.heap)) \X (0..MaxElements) :
                    /\ i \in Held(board.pcb_data.footprints \o board.pcb_data.tracks
                                  \o board.pcb_data.vias)
                    /\ IF board.heap[i].k = "Footprint"
                       THEN /\ j \in 1..Len(board.heap[i].pads)
                            /\ board.heap[i].pads[j].net = Num(old_net)
                       ELSE j = 0 /\ board.heap[i].net = Num(old_net)})

\* NetManager.rename_net(old_net, new_name): the elements of the pcb_data lists
rename_net(board, old_net, new_name) ==
    [result |-> on_net(board, old_net),
     board |-> [board EXCEPT !.heap =
                   [i \in 1..Len(board.heap) |->
                       IF i \in Held(board.pcb_data.footprints \o board.pcb_data.tracks
                                     \o board.pcb_data.vias)
                       THEN renamed(board.heap[i], old_net, new_name)
                       ELSE board.heap[i]]]]

-----------------------------------------------------------------------------
(* Calls on nets *)

\* boards that keep the rule: net 0 carries no name
NetDesigns ==
    { <<Track(25, Num(0), Str("")), Via(80, 40, Num(1), Str("GND"))>>,
      <<Track(25, Num(1), Str("GND")), Track(25, None, None),
        [Footprint("U1") EXCEPT !.pads = <<Pad(Num(0), Str("")), Pad(Num(1), Str("GND"))>>]>> }

NetValues == {None, Num(0), Num(1), Num(-1)}
NetNames == {None, Str(""), Str("GND")}

OpenNets(design) ==
    PcbCall("PCBBoard", design, [result |-> None, board |-> opened(design)])

\* the wrappers of the board's tracks and vias
Wrapped == Held(pcb_board.tracks \o pcb_board.vias)

SetNet(uuid, value) == PcbCall("net", <<uuid, value>>, set_net(pcb_board, uuid, value))

SetNetName(uuid, value) ==
    PcbCall("net_name", <<uuid, value>>, set_net_name(pcb_board, uuid, value))

RenameNet(old_net, new_name) ==
    PcbCall("rename_net", <<old_net, new_name>>, rename_net(pcb_board, old_net, new_name))

NextNets ==
    \/ \E design \in NetDesigns : OpenNets(design)
    \/ \E uuid \in Wrapped, value \in NetValues : SetNet(uuid, value)
    \/ \E uuid \in Wrapped, value \in NetNames : SetNetName(uuid, value)
    \/ \E old_net \in {0, 1}, new_name \in {"GND", "VCC"} : RenameNet(old_net, new_name)

SpecNets == Init /\ [][NextNets]_vars

-----------------------------------------------------------------------------
(* Properties of the nets *)

\* net number 0 together with a non-empty name
NamedNetZero(element) == element.net = Num(0) /\ Named(element.net_name)

\* C24: the net-zero rule is a data invariant: after any sequence of net and
\* net_name assignments and rename_net calls no track, via or pad has net
\* number 0 together with a non-empty net name
C24_NetZeroHasNoName ==
    \A i \in 1..Len(pcb_board.heap) :
        IF pcb_board.heap[i].k = "Footprint"
        THEN \A j \in 1..Len(pcb_board.heap[i].pads) :
                 ~NamedNetZero(pcb_board.heap[i].pads[j])
        ELSE ~NamedNetZero(pcb_board.heap[i])

-----------------------------------------------------------------------------
(* TrackCollection: the lazily rebuilt net and layer indexes
   (collections/tracks.py; add, remove, clear and _ensure_indexes_current are
   IndexedCollection's) *)

TrackItem(uuid, net, layer, length) ==
    [net |-> net, layer |-> layer, uuid |-> uuid, length |-> length]

Positions(items) == [i \in 1..Len(items) |-> i]

\* the nets / layers the items have (a net of None is not indexed)
NetsOf(items) == {items[i].net.n : i \in {j \in 1..Len(items) : items[j].net # None}}
LayersOf(items) == {items[i].layer : i \in 1..Len(items)}

\* TrackCollection._build_additional_indexes: key -> the positions, in order
build_net_index(items) ==
    [n \in NetsOf(items) |->
        SelectSeq(Positions(items), LAMBDA i : items[i].net = Num(n))]

build_layer_index(items) ==
    [l \in LayersOf(items) |->
        SelectSeq(Positions(items), LAMBDA i : items[i].layer = l)]

\* IndexedCollection._ensure_indexes_current: rebuild when dirty
ensure_indexes_current(c) ==
    IF c._dirty_indexes
    THEN [c EXCEPT !._dirty_indexes = FALSE,
                   !._net_index = build_net_index(c._items),
                   !._layer_index = build_layer_index(c._items)]
    ELSE c

Answer(c, result) == [collection |-> c, result |-> result]

\* IndexedCollection.add: a held uuid raises, else the item is appended and
\* the indexes are marked dirty
track_add(c, item) ==
    IF \E i \in 1..Len(c._items) : c._items[i].uuid = item.uuid
    THEN Answer(c, Raise)
    ELSE Answer([c EXCEPT !._items = Append(@, item), !._dirty_indexes = TRUE], item)

\* IndexedCollection.remove(uuid): False when it is not held
track_remove(c, uuid) ==
    IF \A i \in 1..Len(c._items) : c._items[i].uuid # uuid
    THEN Answer(c, FALSE)
    ELSE Answer([c EXCEPT !._items = SelectSeq(@, LAMBDA item : item.uuid # uuid),
                          !._dirty_indexes = TRUE], TRUE)

\* IndexedCollection.clear
track_clear(c) == Answer([c EXCEPT !._items = <<>>, !._dirty_indexes = TRUE], None)

\* the items an index entry lists; [] for a key the index does not have
listed(c, index, key) ==
    IF key \in DOMAIN index THEN [i \in 1..Len(index[key]) |-> c._items[index[key][i]]]
    ELSE <<>>

\* TrackCollection.filter_by_net / filter_by_layer
filter_by_net(c, net) ==
    Answer(ensure_indexes_current(c),
           listed(c, ensure_indexes_current(c)._net_index, net))

filter_by_layer(c, layer) ==
    Answer(ensure_indexes_current(c),
           listed(c, ensure_indexes_current(c)._layer_index, layer))

RECURSIVE total_length(_)
total_length(items) ==
    IF items = <<>> THEN 0 ELSE Head(items).length + total_length(Tail(items))

\* TrackCollection.get_total_length_by_net / _by_layer
get_total_length_by_net(c, net) == total_length(filter_by_net(c, net).result)
get_total_length_by_layer(c, layer) == total_length(filter_by_layer(c, layer).result)

\* the collection after the loop over the keys of an index: the first
\* get_total_length_by_* call of the loop brings the indexes up to date
after_keys(c, keys) == IF keys = {} THEN c ELSE ensure_indexes_current(c)

\* TrackCollection.get_length_statistics: the keys are those of _net_index and
\* _layer_index as they are when their loop starts
get_length_statistics(c) ==
    IF Len(c._items) = 0
    THEN Answer(c, [total_length |-> 0, length_by_net |-> <<>>, length_by_layer |-> <<>>])
    ELSE Answer(after_keys(after_keys(c, DOMAIN c._net_index),
                           DOMAIN after_keys(c, DOMAIN c._net_index)._layer_index),
                [total_length |-> total_length(c._items),
                 length_by_net |->
                     [n \in DOMAIN c._net_index |-> get_total_length_by_net(c, n)],
                 length_by_layer |->
                     [l \in DOMAIN after_keys(c, DOMAIN c._net_index)._layer_index |->
                         get_total_length_by_layer(c, l)]])

-----------------------------------------------------------------------------
(* Calls on the track collection *)

TrackItems ==
    { TrackItem(1, Num(1), "F.Cu", 10), TrackItem(2, Num(2), "B.Cu", 20),
      TrackItem(3, None, "F.Cu", 5), TrackItem(1, Num(2), "F.Cu", 10) }

TrackCall(op, arg, r) ==
    /\ call' = [result |-> r.result, op |-> op, arg |-> arg]
    /\ track_collection' = r.collection
    /\ UNCHANGED <<registry_vars, codec_vars, formatter_vars, board_vars, collection_vars,
                   via, pcb_board, footprint_collection>>

TrackAdd(item) == TrackCall("add", item, track_add(track_collection, item))
TrackRemove(uuid) == TrackCall("remove", uuid, track_remove(track_collection, uuid))
TrackClear == TrackCall("clear", None, track_clear(track_collection))
FilterByNet(net) == TrackCall("filter_by_net", net, filter_by_net(track_collection, net))
FilterByLayer(layer) ==
    TrackCall("filter_by_layer", layer, filter_by_layer(track_collection, layer))
GetLengthStatistics ==
    TrackCall("get_length_statistics", None, get_length_statistics(track_collection))

NextTracks ==
    \/ \E item \in TrackItems : TrackAdd(item)
    \/ \E uuid \in 1..3 : TrackRemove(uuid)
    \/ TrackClear
    \/ \E net \in 1..2 : FilterByNet(net)
    \/ \E layer \in {"F.Cu", "B.Cu"} : FilterByLayer(layer)
    \/ GetLengthStatistics

SpecTracks == Init /\ [][NextTracks]_vars

-----------------------------------------------------------------------------
(* Properties of the collection queries *)

\* the items of the collection that satisfy a condition, in order
Current(Cond(_)) == SelectSeq(track_collection._items, Cond)

OnNet(n) == Current(LAMBDA item : item.net = Num(n))
OnLayer(l) == Current(LAMBDA item : item.layer = l)

\* C21: after any sequence of add, remove and clear, a query answers from
\* the current contents: by net and by layer it returns the items that are
\* there now, and the per-net / per-layer statistics have exactly the keys
\* the current items have, with their totals
C21_QueriesAnswerFromContents ==
    /\ call.op = "filter_by_net" => call.result = OnNet(call.arg)
    /\ call.op = "filter_by_layer" => call.result = OnLayer(call.arg)
    /\ call.op = "get_length_statistics" =>
           /\ DOMAIN call.result.length_by_net = NetsOf(track_collection._items)
           /\ DOMAIN call.result.length_by_layer = LayersOf(track_collection._items)
           /\ \A n \in DOMAIN call.result.length_by_net :
                  call.result.length_by_net[n] = total_length(OnNet(n))
           /\ \A l \in DOMAIN call.result.length_by_layer :
                  call.result.length_by_layer[l] = total_length(OnLayer(l))

-----------------------------------------------------------------------------
(* FootprintCollection and FootprintWrapper.reference
   (collections/footprints.py, wrappers/footprint.py, core/validation.py);
   a reference is the sequence of its characters *)

UpperCase == {"R", "C", "U"}     \* the characters of [A-Z] that are used
Digits == {"0", "1", "2"}        \* the characters of \d that are used

\* s[from..to] is not empty and all of one class
AllIn(s, from, to, class) == from <= to /\ \A k \in from..to : s[k] \in class

\* REFERENCE_PATTERN.match(s) for ^[A-Z]+\d+$ : in Python's re, $ matches at
\* the end and also just before a newline that ends the string
REFERENCE_PATTERN_match(s) ==
    \E i \in 1..Len(s), j \in 1..Len(s) :
        /\ AllIn(s, 1, i, UpperCase)
        /\ AllIn(s, i + 1, j, Digits)
        /\ \/ j = Len(s)
           \/ j = Len(s) - 1 /\ s[Len(s)] = "\n"

\* validate_reference(reference): "" when it passes
validate_reference(reference) ==
    IF reference = <<>> THEN "ReferenceError"
    ELSE IF ~REFERENCE_PATTERN_match(reference) THEN "ReferenceError"
    ELSE ""

FootprintItem(uuid, reference) == [uuid |-> uuid, reference |-> reference]

\* FootprintCollection._build_additional_indexes: reference -> position, the
\* last footprint of a reference winning, an empty reference not indexed
build_reference_index(items) ==
    [reference \in {items[i].reference : i \in 1..Len(items)} \ {<<>>} |->
        CHOOSE i \in 1..Len(items) :
            /\ items[i].reference = reference
            /\ \A j \in (i + 1)..Len(items) : items[j].reference # reference]

\* IndexedCollection._ensure_indexes_current
reference_index_current(c) ==
    IF c._dirty_indexes
    THEN [c EXCEPT !._dirty_indexes = FALSE,
                   !._reference_index = build_reference_index(c._items)]
    ELSE c

\* the footprint an index that is up to date gives for a reference
indexed(c, reference) ==
    IF reference \in DOMAIN c._reference_index
    THEN c._items[c._reference_index[reference]]
    ELSE None

\* FootprintCollection.get_by_reference
get_by_reference(c, reference) ==
    Answer(reference_index_current(c), indexed(reference_index_current(c), reference))

\* IndexedCollection.add / remove on the footprints
footprint_add(c, item) ==
    IF \E i \in 1..Len(c._items) : c._items[i].uuid = item.uuid
    THEN Answer(c, Raise)
    ELSE Answer([c EXCEPT !._items = Append(@, item), !._dirty_indexes = TRUE], item)

footprint_remove(c, uuid) ==
    IF \A i \in 1..Len(c._items) : c._items[i].uuid # uuid
    THEN Answer(c, FALSE)
    ELSE Answer([c EXCEPT !._items = SelectSeq(@, LAMBDA item : item.uuid # uuid),
                          !._dirty_indexes = TRUE], TRUE)

\* self._data.reference = value; self._invalidate_indexes()
assigned_reference(c, uuid, value) ==
    [c EXCEPT !._items = [i \in 1..Len(c._items) |->
                             IF c._items[i].uuid = uuid
                             THEN [c._items[i] EXCEPT !.reference = value]
                             ELSE c._items[i]],
              !._dirty_indexes = TRUE]

\* the duplicate check and the assignment, existing being what
\* collection.get_by_reference(value) answered
checked_reference(looked, uuid, value) ==
    IF looked.result # None /\ looked.result.uuid # uuid
    THEN Answer(looked.collection, Raise)
    ELSE Answer(assigned_reference(looked.collection, uuid, value), None)

\* FootprintWrapper.reference = value, on the wrapper of the footprint uuid
set_reference(c, uuid, value) ==
    IF validate_reference(value) # "" THEN Answer(c, Raise)
    ELSE checked_reference(get_by_reference(c, value), uuid, value)

-----------------------------------------------------------------------------
(* Calls on the footprint collection *)

R1 == <<"R", "1">>
R2 == <<"R", "2">>
C10 == <<"C", "1", "0">>

FootprintItems == {FootprintItem(1, R1), FootprintItem(2, R2), FootprintItem(2, R1)}

\* "R1", "R2", "C10", "", "12", "R-1", "R1\n"
ReferenceValues ==
    { R1, R2, C10, <<>>, <<"1", "2">>, <<"R", "-", "1">>, <<"R", "1", "\n">> }

FootprintCall(op, arg, r) ==
    /\ call' = [result |-> r.result, op |-> op, arg |-> arg]
    /\ footprint_collection' = r.collection
    /\ UNCHANGED <<registry_vars, codec_vars, formatter_vars, board_vars, collection_vars,
                   via, pcb_board, track_collection>>

FootprintAdd(item) ==
    FootprintCall("add", item, footprint_add(footprint_collection, item))

FootprintRemove(uuid) ==
    FootprintCall("remove", uuid, footprint_remove(footprint_collection, uuid))

GetByReference(reference) ==
    FootprintCall("get_by_reference", reference,
                  get_by_reference(footprint_collection, reference))

\* wrapper.reference = value, the wrapper being that of a footprint held
SetReference(uuid, value) ==
    /\ \E i \in 1..Len(footprint_collection._items) :
           footprint_collection._items[i].uuid = uuid
    /\ FootprintCall("reference", <<uuid, value>>,
                     set_reference(footprint_collection, uuid, value))

NextFootprints ==
    \/ \E item \in FootprintItems : FootprintAdd(item)
    \/ \E uuid \in 1..2 : FootprintRemove(uuid)
    \/ \E reference \in ReferenceValues : GetByReference(reference)
    \/ \E uuid \in 1..2, value \in ReferenceValues : SetReference(uuid, value)

SpecFootprints == Init /\ [][NextFootprints]_vars

-----------------------------------------------------------------------------
(* Properties of the footprint references *)

\* letter(s) followed by number(s), and nothing else
WellFormed(s) ==
    \E i \in 1..Len(s) : AllIn(s, 1, i, UpperCase) /\ AllIn(s, i + 1, Len(s), Digits)

\* the footprints of a collection that have a reference
WithReference(c, reference) ==
    {i \in 1..Len(c._items) : c._items[i].reference = reference}

UniqueReferences(c) ==
    \A i, j \in 1..Len(c._items) :
        c._items[i].reference = c._items[j].reference => i = j

\* the reference the footprint uuid has
ReferenceOf(c, uuid) ==
    c._items[CHOOSE i \in 1..Len(c._items) : c._items[i].uuid = uuid].reference

\* a reference assignment that has to be refused: the value is malformed or
\* another footprint has it
Refused(c, uuid, value) ==
    \/ ~WellFormed(value)
    \/ \E i \in WithReference(c, value) : c._items[i].uuid # uuid

\* C23: references stay unique under reference assignments: a malformed
\* reference, or one another footprint has, raises ReferenceError and changes
\* nothing; after a successful assignment the old reference no longer
\* resolves and the new one resolves to that footprint
C23_ReferencesStayUnique ==
    [][(call'.op = "reference" /\ UniqueReferences(footprint_collection)) =>
           /\ UniqueReferences(footprint_collection')
           /\ IF Refused(footprint_collection, call'.arg[1], call'.arg[2])
              THEN /\ call'.result = Raise
                   /\ footprint_collection'._items = footprint_collection._items
              ELSE /\ call'.result = None
                   /\ get_by_reference(footprint_collection', call'.arg[2]).result.uuid
                          = call'.arg[1]
                   /\ ReferenceOf(footprint_collection, call'.arg[1]) # call'.arg[2]
                          => get_by_reference(
                                 footprint_collection',
                                 ReferenceOf(footprint_collection, call'.arg[1])).result
                             = None]_vars

====
